---- MODULE Spec2Model ----
(***************************************************************************)
(* Model of the provbz_opendata integration (ha-opendata-bz):              *)
(*   - the configuration wizard ProvbzOpendataConfigFlow (config_flow.py), *)
(*     one action per step handler, driven by the host that shows a form   *)
(*     and calls the handler of that form with the submitted input;        *)
(*   - the catalog/resource client OpenDataBolzanoApiClient (api.py);      *)
(*   - the polling side (sensor.py, device_tracker.py): the update method  *)
(*     of each platform's DataUpdateCoordinator.                           *)
(* Python dicts are functions (DOMAIN = the keys that are present), lists  *)
(* are sequences.  Upstream answers are inputs of the actions.             *)
(***************************************************************************)
EXTENDS Integers, Sequences, FiniteSets, TLC

VARIABLES
    _config,      \* self._config
    _groups,      \* self._groups
    _packages,    \* self._packages
    _resources,   \* self._resources
    _rows_data,   \* self._rows_data
    result,       \* the FlowResult the last handler invocation gave the host
    cur_step,     \* the host's flow.cur_step: the form it shows and submits
    trail,        \* history: the step handlers that handed over to a next one, in
                  \* the order of their first handing over
    call,         \* history: the host's last call: the handler, the input, and the
                  \* handlers that ran in it
    fetched,      \* history: how often each kind of discovery data was requested
                  \* from upstream in this wizard run
    label,        \* the name sanitizer's argument and its successive results
    request,      \* the client's last call: the method, the exchanges, the outcome
    entry_data,   \* polling side: hass.data[DOMAIN][entry_id] of the binding
    coordinator,  \* polling side: the DataUpdateCoordinator of the binding
    last_update,  \* polling side: how the last update_method call ended
    entities,     \* polling side: the entities the platforms added for the binding
    host          \* hass.data[DOMAIN] by its keys, and the setups and unloads of the
                  \* binding that __init__.py ran

wizard_vars == <<_config, _groups, _packages, _resources, _rows_data, result, cur_step,
                 trail, call, fetched, label, request>>
binder_vars == <<entry_data, coordinator, last_update, entities>>
vars == <<_config, _groups, _packages, _resources, _rows_data, result, cur_step, trail,
          call, fetched, label, request, entry_data, coordinator, last_update, entities,
          host>>

-----------------------------------------------------------------------------
(* Bounds of the model and constants of the program *)

\* the most refreshes of one binding the model follows
MaxRefresh == 3
\* the most setups of one binding without an unload between them
MaxSetups == 2
\* config_flow.py:1017  if total_features > 100
MAX_SENSORS == 100
\* config_flow.py:997   self._rows_data[:500]
WFS_PREVIEW_CAP == 500

None == "None"
EmptyDict == <<>>

\* dict.get(key, default)
Get(d, k, default) == IF k \in DOMAIN d THEN d[k] ELSE default
\* dict.update(other)
Update(d, other) == other @@ d
\* d[key] = value
Put(d, k, v) == (k :> v) @@ d

Range(s) == {s[i] : i \in DOMAIN s}
Take(s, n) == SubSeq(s, 1, IF n < Len(s) THEN n ELSE Len(s))

\* const.py SUPPORTED_LANGUAGES, GROUP_TRANSLATIONS, SUPPORTED_FORMATS
SUPPORTED_LANGUAGES == <<"en", "it", "de", "rm">>
GROUP_TRANSLATIONS == {"it", "de", "en"}
SUPPORTED_FORMATS == {"JSON", "WFS", "XLSX", "XLS", "CSV"}
XLSX_SUPPORTED_FORMATS == {"XLSX", "XLS"}
NAME == "OpenData Provincia Bolzano"

-----------------------------------------------------------------------------
(* Outcome of a call: a returned value or a raised exception *)

Return(v) == [exc |-> "", none |-> FALSE, value |-> v]
ReturnNone == [exc |-> "", none |-> TRUE, value |-> None]
Raise(e) == [exc |-> e, none |-> FALSE, value |-> None]

(* An HTTP exchange as the client sees it.  net: "ok", or the failure that  *)
(* aiohttp / async_timeout / raise_for_status reports.  parses: whether     *)
(* response.json() succeeds.  body: the decoded payload.                   *)
Response(net, ctype, parses, body) ==
    [net |-> net, ctype |-> ctype, parses |-> parses, body |-> body]
NetFailures ==
    {Response(n, "", FALSE, EmptyDict) : n \in {"client_error", "timeout", "http_error"}}

(* A decoded JSON document: isinstance(x, list) / isinstance(x, dict) *)
JList(s) == [kind |-> "list", list |-> s, dict |-> EmptyDict]
JDict(d) == [kind |-> "dict", list |-> <<>>, dict |-> d]

-----------------------------------------------------------------------------
(* Upstream content the model draws from *)

\* catalog groups (group_list)
GroupList == <<[name |-> "weather"], [name |-> "mobility"]>>
\* packages of a group (group_show ... packages)
PackageList == <<[id |-> "pkg1", title |-> "Stations"]>>

Resource(id, format, name, url) == [id |-> id, format |-> format, name |-> name, url |-> url]
\* resources of a package (package_show ... resources)
CatalogA ==
    << Resource("r_json", "JSON", "stations", "http://u/json"),
       Resource("r_wfs", "WFS", "layer", "http://u/wfs"),
       Resource("r_wfs0", "WFS", "", "http://u/wfs0"),
       Resource("r_xlsx", "XLSX", "sheet", "http://u/xlsx"),
       Resource("r_xls", "XLS", "oldsheet", "http://u/xls"),
       Resource("r_csv", "CSV", "table", "http://u/csv"),
       Resource("r_xml", "XML", "meteo", "http://u/xml"),
       Resource("r_pdf", "PDF", "report", "http://u/pdf"),
       Resource("r_nourl", "JSON", "draft", "") >>
\* the same package after the publisher withdrew the first resources
CatalogB == SubSeq(CatalogA, 7, 9)

Envelope(payload) == ("success" :> TRUE) @@ ("result" :> payload)
ErrorEnvelope == ("success" :> FALSE) @@ ("error" :> [message |-> "Not found"])

ApiResponses(results) ==
    NetFailures
    \cup {Response("ok", "application/json", FALSE, EmptyDict)}
    \cup {Response("ok", "application/json", TRUE, ErrorEnvelope)}
    \cup {Response("ok", "application/json", TRUE, Envelope(r)) : r \in results}

GroupListResponses == ApiResponses({GroupList})
GroupShowResponses ==
    ApiResponses({("packages" :> <<>>), ("packages" :> PackageList), ("name" :> "weather")})
PackageShowResponses ==
    ApiResponses({("resources" :> CatalogA), ("resources" :> CatalogB), ("id" :> "pkg1")})

-----------------------------------------------------------------------------
(* api.py  OpenDataBolzanoApiClient *)

\* content types the model answers with, and the substring tests the client makes on them
CT_JSON == "application/json"
CT_XML == "text/xml"
CT_XLS == "application/vnd.ms-excel"
CT_XLSX == "application/vnd.openxmlformats-officedocument.spreadsheetml.sheet"
CT_CSV == "text/csv"
\* 'excel' in content_type or 'xls' in content_type
ContainsExcelOrXls(ct) == ct \in {CT_XLS}
\* 'xml' in content_type.lower()
ContainsXml(ct) == ct \in {CT_XML, CT_XLSX}
\* aiohttp response.json() accepts the body only under a JSON content type
JsonContentType(ct) == ct \in {CT_JSON}

\* a client that takes every envelope for a success
SuccessNeverFalse(data) == FALSE
\* _api_call: data.get("success") is False
SuccessIsFalse(data) == "success" \in DOMAIN data /\ data["success"] = FALSE

\* _api_call: the envelope's result, or CannotConnect
_api_call(resp) ==
    IF resp.net # "ok" THEN Raise("CannotConnect")
    ELSE IF ~resp.parses \/ ~JsonContentType(resp.ctype) THEN Raise("CannotConnect")
    ELSE IF SuccessIsFalse(resp.body) THEN Raise("CannotConnect")
    ELSE IF "result" \in DOMAIN resp.body THEN Return(resp.body["result"])
    ELSE ReturnNone

get_groups(resp) == _api_call(resp)
get_group_details(resp) == _api_call(resp)
get_package_details(resp) == _api_call(resp)

\* get_group_packages: group_data.get("packages", []); any exception is re-raised
get_group_packages(resp) ==
    LET group_data == get_group_details(resp) IN
    IF group_data.exc # "" THEN group_data
    ELSE IF group_data.none THEN Raise("AttributeError")
    ELSE Return(Get(group_data.value, "packages", <<>>))

(* get_resource_data: resp is the exchange for the URL, second the exchange *)
(* for the re-issued OUTPUTFORMAT=application/json request                  *)
get_resource_data(resp, second) ==
    IF resp.net # "ok" THEN Raise("CannotConnect")
    ELSE IF ContainsExcelOrXls(resp.ctype) THEN Return(JDict(("rows" :> <<>>)))
    ELSE IF ContainsXml(resp.ctype) THEN
        IF second.net # "ok" \/ ~second.parses \/ ~JsonContentType(second.ctype)
            THEN Raise("CannotConnect")
        ELSE IF second.body.kind # "dict" THEN Raise("CannotConnect")
        ELSE Return(JList(Get(second.body.dict, "features", <<>>)))
    ELSE IF ~resp.parses \/ ~JsonContentType(resp.ctype) THEN Raise("CannotConnect")
    ELSE Return(resp.body)

\* get_resource_binary: the raw bytes, or CannotConnect
get_resource_binary(resp) ==
    IF resp.net # "ok" THEN Raise("CannotConnect") ELSE Return(resp.body)

\* get_wfs_features: data.get("features", []); the empty list on any failure
get_wfs_features(resp) ==
    IF resp.net # "ok" \/ ~resp.parses \/ ~JsonContentType(resp.ctype) THEN Return(<<>>)
    ELSE IF resp.body.kind # "dict" THEN Return(<<>>)
    ELSE Return(Get(resp.body.dict, "features", <<>>))

-----------------------------------------------------------------------------
(* Resource payloads the model draws from *)

\* one more plain field than the sensor ceiling, for the widest row of the model
WideFields == MAX_SENSORS + 1
K(i) == "c" \o ToString(i)

Measurement(code, description) == ("code" :> code) @@ ("description" :> description)
\* JSON numbers are written as strings; these are the ones that are not str in Python
NumberValues == {"21.4", "19.0", "7"}
\* the float pandas puts in a missing cell
NaN == "NaN"
IsStr(v) == v \notin NumberValues \cup {NaN}

Bolzano == ("name" :> "Bolzano") @@ ("measurements" :> <<Measurement("t", "temp")>>)
           @@ ("t" :> "21.4")
Merano == ("name" :> "Merano") @@ ("measurements" :> <<Measurement("t", "temp")>>)
          @@ ("t" :> "19.0")
\* the first station with its measurement code and its key in capitals
BolzanoCapital == ("name" :> "Bolzano") @@ ("measurements" :> <<Measurement("T", "temp")>>)
                  @@ ("T" :> "21.4")
\* a station whose name is a JSON number
Station7 == ("name" :> "7") @@ ("measurements" :> <<Measurement("t", "temp")>>)
            @@ ("t" :> "19.0")
\* a station with two measurements
Brunico == ("name" :> "Brunico")
           @@ ("measurements" :> <<Measurement("t", "temp"), Measurement("v", "wind")>>)
           @@ ("t" :> "21.4") @@ ("v" :> "7")
\* a station whose measurement is described with the text N/A
Silandro == ("name" :> "Silandro") @@ ("measurements" :> <<Measurement("t", "N/A")>>)
            @@ ("t" :> "19.0")
\* a row without a measurements list
PlainRow == ("name" :> "Plain") @@ ("v" :> "on")
\* a row with WideFields plain fields
WideRow == [k \in {"name", "measurements"} \cup {K(i) : i \in 1..WideFields} |->
               IF k = "name" THEN "Wide"
               ELSE IF k = "measurements" THEN <<Measurement(K(1), "first")>>
               ELSE "on"]

\* the iteration order of the keys of a row dict
KeyOrder == <<"name", "measurements", "t", "T", "v", "ID", "Name", "Value", "value",
              "Unnamed: 3">>
            \o [i \in 1..WideFields |-> K(i)]
Keys(row) == SelectSeq(KeyOrder, LAMBDA k : k \in DOMAIN row)

JsonRowLists ==
    {<<>>, <<Bolzano, Merano>>, <<Bolzano>>, <<Station7, PlainRow>>, <<WideRow>>,
     <<Brunico, Silandro>>, <<BolzanoCapital, Merano>>}

\* a GeoJSON point feature
Feature(i) == [id |-> i,
               geometry |-> [type |-> "Point", coordinates |-> <<11 + i, 46 + i>>],
               properties |-> ("name" :> "p")]
Features(n) == [i \in 1..n |-> Feature(i)]
FeatureCollection(n) == JDict(("type" :> "FeatureCollection") @@ ("features" :> Features(n)))
FeatureCounts == {0, 1, 3, MAX_SENSORS, MAX_SENSORS + 1, WFS_PREVIEW_CAP + 1}
\* a JSON null in the geometry slot of a feature
Null == [type |-> "null", coordinates |-> <<>>]
\* features out of shape: without an id, without a geometry key, with a null
\* geometry, with a single coordinate
Unidentified(i) == [geometry |-> [type |-> "Point", coordinates |-> <<11 + i, 46 + i>>],
                    properties |-> ("name" :> "p")]
NoGeometry == [id |-> 7, properties |-> ("name" :> "p")]
NullGeometry == [id |-> 8, geometry |-> Null, properties |-> ("name" :> "p")]
ShortPoint == [id |-> 9, geometry |-> [type |-> "Point", coordinates |-> <<11>>],
               properties |-> ("name" :> "p")]

JsonBody(ct, body) == Response("ok", ct, TRUE, body)
NotJson(ct) == Response("ok", ct, FALSE, JDict(EmptyDict))

\* what the URL of a JSON resource may answer
JsonResponses ==
    NetFailures
    \cup {NotJson(CT_JSON), NotJson(CT_XLS), NotJson(CT_XML)}
    \cup {JsonBody(CT_JSON, JList(rows)) : rows \in JsonRowLists}
    \cup {JsonBody(CT_JSON, JDict(("rows" :> <<Bolzano, Merano>>))),
          JsonBody(CT_JSON, JDict(("error" :> "maintenance")))}
\* what the URL of a WFS resource may answer
WfsResponses ==
    NetFailures
    \cup {NotJson(CT_JSON), NotJson(CT_XML)}
    \cup {JsonBody(CT_JSON, FeatureCollection(n)) : n \in FeatureCounts}
    \cup {JsonBody(CT_JSON, JDict(("type" :> "FeatureCollection"))),
          JsonBody(CT_JSON, JList(Features(1)))}
\* feature collections with features out of shape
OddCollections ==
    {JsonBody(CT_JSON, JDict(("type" :> "FeatureCollection") @@ ("features" :> fs))) :
        fs \in {<<Unidentified(1), Unidentified(2)>>,
                <<Feature(1), NoGeometry, ShortPoint>>,
                <<Feature(2), NullGeometry>>}}
\* what the re-issued JSON request of get_resource_data may answer
SecondResponses ==
    {Response("timeout", "", FALSE, JDict(EmptyDict)), JsonBody(CT_JSON, FeatureCollection(3))}

(* Spreadsheet / CSV bytes: a header row and data rows of cell texts ("" is *)
(* an empty cell), or bytes no parser accepts                              *)
Sheet(header, data) == [corrupt |-> FALSE, header |-> header, data |-> data]
CorruptBytes == [corrupt |-> TRUE, header |-> <<>>, data |-> <<>>]
\* three data rows, the second one fully empty
SheetC == Sheet(<<"ID", "Name", "Value">>,
                <<(<<"1", "a", "10">>), (<<"", "", "">>), (<<"3", "c", "30">>)>>)
\* a row without its identifying first cell, and a column without a header
SheetD == Sheet(<<"ID", "Name", "Value", "Unnamed: 3">>,
                <<(<<"", "b", "N/A", "x">>), (<<"2", "", "20", "">>)>>)
SheetEmpty == Sheet(<<"ID", "Name", "Value">>, <<>>)
\* two columns whose names differ in the case of a letter
SheetV == Sheet(<<"ID", "Value", "value">>, <<(<<"1", "10", "11">>)>>)
BinaryResponses ==
    NetFailures
    \cup {Response("ok", ct, FALSE, b) :
            ct \in {CT_XLS}, b \in {CorruptBytes, SheetC, SheetD, SheetEmpty}}

\* the cell texts pandas reads as missing by default (keep_default_na)
DEFAULT_NA == {"", "N/A", "NA", "#N/A", "NaN", "nan", "null", "NULL", "n/a", "<NA>", "None"}
ColumnIndex(header, c) == CHOOSE j \in DOMAIN header : header[j] = c
\* pd.read_excel / pd.read_csv: one record per data row, missing cells as NaN
read_table(bytes, na_values) ==
    IF bytes.corrupt THEN Raise("ValueError")
    ELSE Return([columns |-> bytes.header,
                 records |-> [i \in DOMAIN bytes.data |->
                     [c \in Range(bytes.header) |->
                         LET cell == bytes.data[i][ColumnIndex(bytes.header, c)] IN
                         IF cell \in na_values THEN NaN ELSE cell]]])
\* df.dropna(how='all')
dropna_all(records) == SelectSeq(records, LAMBDA r : \E c \in DOMAIN r : r[c] # NaN)

-----------------------------------------------------------------------------
(* config_flow.py  ProvbzOpendataConfigFlow *)

\* the flow's identifier, used as unique_id of the entry
flow_id == "flow1"

\* the handler's user_input argument: None, or the dict the host validated
NoInput == [given |-> FALSE, data |-> EmptyDict]
Input(d) == [given |-> TRUE, data |-> d]

\* FlowResult values.  schema: "empty" vol.Schema({}), "in" one required choice
\* among options, "multi" a list of options, "cell" / "name" free entries
async_show_form(step_id, schema, options, errors) ==
    [type |-> "form", step_id |-> step_id, schema |-> schema, options |-> options,
     errors |-> errors, title |-> "", data |-> EmptyDict, preview |-> <<>>]
FormWithPreview(step_id, errors, preview) ==
    [async_show_form(step_id, "empty", <<>>, errors) EXCEPT !.preview = preview]
async_create_entry(title, data) ==
    [type |-> "create_entry", step_id |-> "", schema |-> "", options |-> <<>>,
     errors |-> "", title |-> title, data |-> data, preview |-> <<>>]
\* the handler ended with a bare return
ReturnsNone ==
    [type |-> "none", step_id |-> "", schema |-> "", options |-> <<>>,
     errors |-> "", title |-> "", data |-> EmptyDict, preview |-> <<>>]
\* an exception left the handler
Raises(exc) ==
    [type |-> "raise", step_id |-> "", schema |-> "", options |-> <<>>,
     errors |-> exc, title |-> "", data |-> EmptyDict, preview |-> <<>>]

\* what a handler leaves behind: the flow object, its result, the handlers that ran
Outcome(self, res, chain) == [self |-> self, res |-> res, chain |-> chain]
\* return await self.async_step_next(): the next handler's result is this one's
Chained(name, next) == Outcome(next.self, next.res, <<name>> \o next.chain)

\* list[idx] with Python's zero-based index
At(list, idx) == list[idx + 1]
InRange(list, idx) == idx >= 0 /\ idx < Len(list)
FindResource(resources, id) == {i \in DOMAIN resources : resources[i].id = id}
\* str.lower() on the codes and keys of the model
Lower(str) == IF str = "T" THEN "t" ELSE str

\* one line of the confirm preview: the row name, the text the field part of the
\* entity id is derived from, and the value shown
PreviewLine(row_name, field_source, value) ==
    [row_name |-> row_name, field_source |-> field_source, value |-> value]

\* the measurement of a row whose code matches key, case-insensitively
FindMeasurement(row, key) ==
    LET ms == Get(row, "measurements", <<>>) IN
    {i \in DOMAIN ms : Lower(Get(ms[i], "code", "")) = Lower(key)}

\* async_step_confirm, the preview of the JSON branch (also taken by CSV)
JsonPreview(self) ==
    LET row == At(self.rows_data, At(self.config["selected_rows"], 0))
        fields == self.config["selected_fields"]
    IN [i \in DOMAIN fields |->
           LET found == FindMeasurement(row, fields[i][2])
               m == Get(row, "measurements", <<>>)[CHOOSE j \in found : \A k \in found : j <= k]
           IN PreviewLine(Get(row, "name", "row"),
                  IF fields[i][1] = "measurement" /\ found # {} /\ "description" \in DOMAIN m
                      THEN m["description"] ELSE fields[i][2],
                  Get(row, fields[i][2], "N/A"))]

\* async_step_confirm, the preview of the XLSX/XLS branch
ExcelPreview(self) ==
    LET row == At(self.rows_data, At(self.config["selected_rows"], 0))
        fields == self.config["selected_fields"]
    IN [i \in DOMAIN fields |->
           PreviewLine(row[Keys(row)[1]], fields[i][2], Get(row, fields[i][2], "N/A"))]

\* a confirm step that asks for no confirmation
ConfirmedAlways(user_input) == TRUE
\* async_step_confirm: if user_input is not None
Confirmed(user_input) == user_input.given

async_step_confirm(self, user_input) ==
    LET format == Get(self.config, "resource_format", "") IN
    IF Confirmed(user_input) THEN
        LET config_data == Put(Put(Put(self.config, "rows_data", self.rows_data),
                                   "resources", self.resources), "unique_id", flow_id)
            found == FindResource(self.resources, self.config["resource_id"])
        IN IF found = {} THEN Outcome(self, Raises("AttributeError"), <<"confirm">>)
           ELSE Outcome(self,
                    async_create_entry(self.resources[CHOOSE i \in found : TRUE].name,
                                       config_data),
                    <<"confirm">>)
    ELSE IF format = "WFS" THEN
        LET total_features == Len(Take(self.rows_data, WFS_PREVIEW_CAP)) IN
        IF total_features = 0
            THEN Outcome(self, FormWithPreview("confirm", "no_wfs_features", <<>>), <<"confirm">>)
        ELSE IF total_features > MAX_SENSORS
            THEN Outcome(self, FormWithPreview("confirm", "too_many_sensors", <<>>), <<"confirm">>)
        ELSE Outcome(self, FormWithPreview("confirm", "", <<total_features>>), <<"confirm">>)
    ELSE IF format \in {"XLSX", "XLS"} THEN
        IF /\ "selected_rows" \in DOMAIN self.config
           /\ "selected_fields" \in DOMAIN self.config
           /\ InRange(self.rows_data, At(self.config["selected_rows"], 0))
            THEN Outcome(self, FormWithPreview("confirm", "", ExcelPreview(self)), <<"confirm">>)
        \* the except branch subscripts the coroutine self.translations
        ELSE Outcome(self, Raises("TypeError"), <<"confirm">>)
    \* the JSON branch, also taken by CSV.  The XML branch is not followed: the
    \* resource step records no XML resource (XML is not in SUPPORTED_FORMATS)
    ELSE
        IF "selected_fields" \notin DOMAIN self.config
            THEN Outcome(self, Raises("KeyError"), <<"confirm">>)
        ELSE IF Get(self.config, "selected_rows", <<>>) = <<>>
            THEN Outcome(self, FormWithPreview("confirm", "", <<>>), <<"confirm">>)
        ELSE IF ~IsStr(Get(At(self.rows_data, At(self.config["selected_rows"], 0)), "name", "row"))
            THEN Outcome(self, Raises("AttributeError"), <<"confirm">>)
        ELSE Outcome(self, FormWithPreview("confirm", "", JsonPreview(self)), <<"confirm">>)

async_step_excel_confirm(self, user_input) ==
    IF user_input.given THEN
        LET config1 == Put(self.config, "sensor_name", user_input.data["sensor_name"])
            self1 == [self EXCEPT !.config = config1]
        IN Outcome(self1,
               async_create_entry(<<"Excel", config1["excel_column"], config1["excel_row"]>>,
                                  Put(config1, "unique_id", flow_id)),
               <<"excel_confirm">>)
    ELSE Outcome(self, async_show_form("excel_confirm", "name", <<>>, ""), <<"excel_confirm">>)

\* the column letters of a coordinate entry, each as ord(letter) - ord('A')
\* after .upper(): "A" is <<0>>, "AB" is <<0, 1>>, the digit "1" is <<-16>>
RECURSIVE ColumnNumber(_)
ColumnNumber(letters) ==
    IF letters = <<>> THEN 0
    ELSE ColumnNumber(SubSeq(letters, 1, Len(letters) - 1)) * 26 + letters[Len(letters)] + 1
\* na_values of the coordinate step (keep_default_na=False)
CELL_NA == {"", "N/A", "NA", "#N/A"}

async_step_excel_coordinates(self, user_input, resp) ==
    LET name == <<"excel_coordinates">>
        form(errors) == async_show_form("excel_coordinates", "cell", <<>>, errors)
    IN
    IF ~user_input.given THEN Outcome(self, form(""), name)
    ELSE
        LET column == user_input.data["excel_column"]
            row == user_input.data["excel_row"]
            excel_data == get_resource_binary(resp)
            data == read_table(excel_data.value, CELL_NA)
            col_idx == ColumnNumber(column) - 1
            ncols == Len(data.value.columns)
            \* DataFrame.iloc accepts a negative position counted from the end
            pos == IF col_idx < 0 THEN ncols + col_idx ELSE col_idx
        IN
        IF excel_data.exc # "" THEN Outcome(self, form("invalid_coordinates"), name)
        ELSE IF data.exc # "" THEN Outcome(self, form("invalid_coordinates"), name)
        ELSE IF ~(row - 1 < Len(data.value.records) /\ col_idx < ncols)
            THEN Outcome(self, form("invalid_coordinates"), name)
        ELSE IF pos < 0 THEN Outcome(self, form("invalid_coordinates"), name)
        ELSE
            LET value == data.value.records[row][data.value.columns[pos + 1]] IN
            IF value = NaN THEN Outcome(self, form("empty_cell"), name)
            ELSE Chained("excel_coordinates",
                     async_step_excel_confirm(
                         [self EXCEPT !.config =
                             Put(Put(Put(self.config, "excel_preview_value", value),
                                     "excel_row", row), "excel_column", column)],
                         NoInput))

\* str.startswith("Unnamed") on the names of the model
StartsWithUnnamed(str) == str \in {"Unnamed: 3"}

\* _format_excel_row_label: None (FALSE here) when the first five columns are all empty
HasRowLabel(row_data, columns) ==
    \E i \in DOMAIN Take(columns, 5) : Get(row_data, columns[i], "") \notin {NaN, ""}

\* an option of the fields step: f"{kind}:{key}", read back by item.split(":", 1)
FieldOption(kind, key) == <<kind, key>>
\* _filter_na_values: 'N/A' in the label, whose parts are code, description, value
LabelHasNA(code, description, value) == "N/A" \in {code, description, value}

\* the candidate selectors of a spreadsheet / CSV row
TabularFieldOptions(self) ==
    LET columns == Get(self.config, "xlsx_columns", <<>>)
        selected_row == At(self.rows_data, At(self.config["selected_rows"], 0))
        offered == SelectSeq(columns, LAMBDA c :
                       ~StartsWithUnnamed(c) /\ Get(selected_row, c, "") # NaN)
    IN [i \in DOMAIN offered |-> FieldOption("field", offered[i])]

\* the measurements of a JSON row that carry a code and a description
CodedMeasurements(row) ==
    SelectSeq(Get(row, "measurements", <<>>),
              LAMBDA m : "description" \in DOMAIN m /\ "code" \in DOMAIN m)

\* the candidate selectors of a JSON row
JsonFieldOptions(self) ==
    LET selected_row == At(self.rows_data, At(self.config["selected_rows"], 0))
        coded == CodedMeasurements(selected_row)
        kept == SelectSeq(coded, LAMBDA m :
                    ~LabelHasNA(Lower(m["code"]), m["description"],
                                Get(selected_row, Lower(m["code"]), "N/A")))
        \* processed_fields.add(code): the code of the last measurement of the loop
        processed_fields == {Lower(coded[Len(coded)]["code"])}
        plain == SelectSeq(Keys(selected_row), LAMBDA k :
                     k # "measurements" /\ Lower(k) \notin processed_fields)
    IN [i \in DOMAIN kept |-> FieldOption("measurement", Lower(kept[i]["code"]))]
       \o [i \in DOMAIN plain |-> FieldOption("field", plain[i])]

\* a fields step that takes an empty selection as a selection
NothingSelectedNever(selected) == FALSE
\* async_step_fields: if not selected
NothingSelected(selected) == selected = <<>>

async_step_fields(self, user_input) ==
    LET name == <<"fields">>
        format == Get(self.config, "resource_format", "")
        unknown == async_show_form("fields", "empty", <<>>, "unknown")
        selected_row == At(self.rows_data, At(self.config["selected_rows"], 0))
    IN
    IF ~("selected_rows" \in DOMAIN self.config
         /\ InRange(self.rows_data, At(self.config["selected_rows"], 0)))
        THEN Outcome(self, unknown, name)
    \* `code` is unbound after a loop that assigned it never
    ELSE IF format \notin {"XLSX", "XLS", "CSV", "XML"} /\ CodedMeasurements(selected_row) = <<>>
        THEN Outcome(self, unknown, name)
    ELSE
        LET options == IF format \in {"XLSX", "XLS", "CSV"} THEN TabularFieldOptions(self)
                       \* XML rows carry no graphics list in this model
                       ELSE IF format = "XML" THEN <<>>
                       ELSE JsonFieldOptions(self)
            selected == Get(user_input.data, "fields", <<>>)
            errors == IF user_input.given /\ NothingSelected(selected)
                          THEN "no_fields_selected" ELSE ""
            \* each item is "kind:key" and splits into a pair
            selected_fields == selected
        IN
        IF user_input.given /\ ~NothingSelected(selected) /\ selected_fields # <<>> THEN
            LET self1 == [self EXCEPT !.config =
                             Put(self.config, "selected_fields", selected_fields)]
                next == async_step_confirm(self1, NoInput)
            IN IF next.res.type = "raise" THEN Outcome(next.self, unknown, name \o next.chain)
               ELSE Chained("fields", next)
        ELSE IF options = <<>>
            THEN Outcome(self, async_show_form("fields", "empty", <<>>, "no_fields_available"), name)
        ELSE Outcome(self, async_show_form("fields", "multi", options, errors), name)

\* XML bytes: whether they parse, whether array/rows/stationValues is there, and
\* the stationValues content (a list, or a single element parsed as a dict)
XmlBytes(rooted, stations) ==
    [corrupt |-> FALSE, header |-> <<>>, data |-> <<>>, rooted |-> rooted, stations |-> stations]
XmlStation(name) == ("name" :> name) @@ ("t" :> "5.0")
XmlResponses ==
    NetFailures
    \cup {Response("ok", CT_XML, FALSE, b) :
            b \in {CorruptBytes,
                   XmlBytes(FALSE, JList(<<>>)),
                   XmlBytes(TRUE, JList(<<XmlStation("Brenner"), XmlStation("")>>)),
                   XmlBytes(TRUE, JDict(XmlStation("Brenner")))}}

\* the second exchange matters only after an answer with an XML content type
SecondFor(resp) ==
    IF resp.net = "ok" /\ ContainsXml(resp.ctype) THEN SecondResponses
    ELSE {JsonBody(CT_JSON, FeatureCollection(3))}

\* what the URL of a resource of the given declared format may answer
DataResponses(format) ==
    IF format = "WFS" THEN WfsResponses
    ELSE IF format = "XML" THEN XmlResponses
    ELSE IF format \in {"XLSX", "XLS", "CSV"} THEN BinaryResponses
    ELSE JsonResponses

\* an option of the rows step: f"row_{idx}", read back by int(value.split("_")[1])
RowOption(idx) == <<"row", idx>>
\* enumerate(self._rows_data): the zero-based indexes of the rows
RowIndexes(rows) == [i \in 1..Len(rows) |-> i - 1]
RowOptions(idxs) == [i \in DOMAIN idxs |-> RowOption(idxs[i])]

(* The first part of async_step_rows: load the rows unless they are cached. *)
(* status "ok": rows loaded; "raise": an exception for the outer handler;   *)
(* "form": the step ends with an error form of its own                      *)
Loaded(status, self, errors) == [status |-> status, self |-> self, errors |-> errors]
LoadRows(self, resp, second) ==
    LET format == Get(self.config, "resource_format", "") IN
    IF self.rows_data # <<>> \/ format \notin {"JSON", "XLSX", "XLS", "CSV", "XML"}
        THEN Loaded("ok", self, "")
    ELSE IF format = "JSON" THEN
        LET json_data == get_resource_data(resp, second) IN
        IF json_data.exc # "" THEN Loaded("raise", self, json_data.exc)
        ELSE IF json_data.value.kind = "list"
            THEN Loaded("ok", [self EXCEPT !.rows_data = json_data.value.list], "")
        ELSE IF json_data.value.kind = "dict" /\ "rows" \in DOMAIN json_data.value.dict
            THEN Loaded("ok", [self EXCEPT !.rows_data = json_data.value.dict["rows"]], "")
        ELSE Loaded("ok", self, "")
    ELSE
        LET data == get_resource_binary(resp) IN
        IF data.exc # "" THEN Loaded("raise", self, data.exc)
        ELSE IF format = "XML" THEN
            IF data.value.corrupt \/ ~data.value.rooted THEN
                Loaded("form", self,
                       IF data.value.corrupt THEN "xml_parse_error" ELSE "invalid_xml_format")
            ELSE Loaded("ok", [self EXCEPT !.rows_data =
                                   IF data.value.stations.kind = "list"
                                       THEN data.value.stations.list
                                   ELSE <<data.value.stations.dict>>], "")
        ELSE
            LET df == read_table(data.value, DEFAULT_NA) IN
            IF df.exc # "" THEN
                IF format = "CSV" THEN Loaded("form", self, "csv_parse_error")
                ELSE Loaded("raise", self, df.exc)
            ELSE Loaded("ok", [self EXCEPT !.rows_data = dropna_all(df.value.records),
                                           !.config = Put(self.config, "xlsx_columns",
                                                          df.value.columns)], "")

\* the options of the rows step: one per row of the loaded rows that has a label
RowChoices(self) ==
    LET format == Get(self.config, "resource_format", "") IN
    IF format = "JSON" THEN RowOptions(RowIndexes(self.rows_data))
    ELSE IF format \in {"XLSX", "XLS", "CSV"} THEN
        RowOptions(SelectSeq(RowIndexes(self.rows_data), LAMBDA idx :
            HasRowLabel(At(self.rows_data, idx), self.config["xlsx_columns"])))
    ELSE IF format = "XML" THEN
        RowOptions(SelectSeq(RowIndexes(self.rows_data), LAMBDA idx :
            Get(At(self.rows_data, idx), "name", "") # ""))
    ELSE <<>>

\* a rows step that offers whatever it has, even nothing
NoOptionsIgnored(options) == FALSE
\* async_step_rows: if not options
NoOptions(options) == options = <<>>

\* a rows step that reads the index after the selected one
SelectedIndexNext(selected_row) == selected_row[2] + 1
\* async_step_rows: int(selected_row.split("_")[1])
SelectedIndex(selected_row) == selected_row[2]

async_step_rows(self, user_input, resp, second) ==
    LET name == <<"rows">>
        loaded == LoadRows(self, resp, second)
        self1 == loaded.self
        options == RowChoices(self1)
        selected_row == Get(user_input.data, "row", None)
    IN
    IF loaded.status = "raise"
        THEN Outcome(self1, async_show_form("rows", "empty", <<>>, "unknown"), name)
    ELSE IF loaded.status = "form"
        THEN Outcome(self1, async_show_form("rows", "empty", <<>>, loaded.errors), name)
    ELSE IF NoOptions(options)
        THEN Outcome(self1, async_show_form("rows", "empty", <<>>, "no_valid_rows"), name)
    ELSE IF user_input.given /\ "row" \in DOMAIN user_input.data THEN
        Chained("rows",
            async_step_fields(
                [self1 EXCEPT !.config = Put(self1.config, "selected_rows",
                                             <<SelectedIndex(selected_row)>>)],
                NoInput))
    ELSE Outcome(self1, async_show_form("rows", "in", options, ""), name)

\* an option of the resource step: the id, prefixed for an unsupported format
ResourceOption(prefix, id) == [prefix |-> prefix, id |-> id]
\* the option list of the resource step: supported entries, then unsupported ones
ResourceOptions(resources) ==
    LET listed == SelectSeq(resources, LAMBDA r : ~StartsWithUnnamed(r.name))
        supported == SelectSeq(listed, LAMBDA r : r.format \in SUPPORTED_FORMATS)
        unsupported == SelectSeq(listed, LAMBDA r : r.format \notin SUPPORTED_FORMATS)
    IN [i \in DOMAIN supported |-> ResourceOption("", supported[i].id)]
       \o [i \in DOMAIN unsupported |-> ResourceOption("not_available_", unsupported[i].id)]

\* a resource step that takes every selection value as selectable
NeverNotAvailable(selected) == FALSE
\* async_step_resource: selected_resource_id.startswith("not_available_")
StartsWithNotAvailable(selected) == selected.prefix = "not_available_"

\* the canonical resource URL: the resource's URL with the lang parameter forced
ResourceUrl(url, lang) == [url |-> url, lang |-> lang]

\* async_step_resource, the WFS branch of a selected resource
ResourceWfsBranch(self, resource, options, data_resp, second) ==
    LET name == <<"resource">>
        form(errors) == async_show_form("resource", "in", options, errors)
        wfs_data == get_resource_data(data_resp, second)
    IN
    \* no typename: errors is set and the handler ends with a bare return
    IF resource.name = "" THEN Outcome(self, ReturnsNone, name)
    ELSE IF wfs_data.exc # "" THEN Outcome(self, form("wfs_error"), name)
    ELSE IF wfs_data.value.kind # "dict" THEN Outcome(self, form("invalid_wfs_format"), name)
    ELSE IF Get(wfs_data.value.dict, "features", <<>>) = <<>>
        THEN Outcome(self, form("no_wfs_features"), name)
    ELSE Chained("resource",
             async_step_confirm([self EXCEPT !.rows_data = wfs_data.value.dict["features"]],
                                NoInput))

async_step_resource(self, user_input, resp, data_resp, second) ==
    LET name == <<"resource">>
        package_details == get_package_details(resp)
        resources == Get(package_details.value, "resources", <<>>)
        self1 == [self EXCEPT !.resources = resources]
        options == ResourceOptions(resources)
        form(errors) == async_show_form("resource", "in", options, errors)
        selected == user_input.data["resource_id"]
        self2 == [self1 EXCEPT !.config = Put(self1.config, "resource_id", selected.id)]
        found == FindResource(resources, selected.id)
        resource == resources[CHOOSE i \in found : TRUE]
        lang == Get(self.config, "language", "en")
        self3 == [self2 EXCEPT !.config =
                     Put(Put(self2.config, "resource_format", resource.format),
                         "resource_url", ResourceUrl(resource.url, lang))]
    IN
    IF package_details.exc # ""
        THEN Outcome(self, async_show_form("resource", "in", <<>>, "cannot_connect"), name)
    ELSE IF package_details.none
        THEN Outcome(self, async_show_form("resource", "in", <<>>, "unknown"), name)
    ELSE IF ~user_input.given THEN Outcome(self1, form(""), name)
    ELSE IF StartsWithNotAvailable(selected) THEN Outcome(self1, form(""), name)
    ELSE IF found = {} THEN Outcome(self2, form(""), name)
    ELSE IF resource.url = "" THEN Outcome(self2, form(""), name)
    ELSE IF resource.format = "WFS"
        THEN ResourceWfsBranch(self3, resource, options, data_resp, second)
    ELSE IF resource.format = "XLSX"
        THEN Chained("resource", async_step_excel_coordinates(self3, NoInput, data_resp))
    ELSE IF resource.format \in {"JSON", "XLS", "XML", "CSV"}
        THEN Chained("resource", async_step_rows(self3, NoInput, data_resp, second))
    ELSE Outcome(self3, form(""), name)

\* a package step that ignores its errors
PackageSubmittedAnyway(user_input, errors) == user_input.given
\* async_step_package: if user_input is not None and not errors
PackageSubmitted(user_input, errors) == user_input.given /\ errors = ""

async_step_package(self, user_input, resp, res_resp) ==
    LET name == <<"package">>
        packages == get_group_packages(resp)
        self1 == [self EXCEPT !.packages = packages.value]
        errors == IF packages.value = <<>> THEN "no_packages" ELSE ""
        options == IF packages.value = <<>> THEN <<"default">>
                   ELSE [i \in DOMAIN packages.value |-> packages.value[i].id]
    IN
    IF packages.exc = "CannotConnect"
        THEN Outcome(self, async_show_form("package", "in", <<"default">>, "cannot_connect"), name)
    ELSE IF packages.exc # ""
        THEN Outcome(self, async_show_form("package", "in", <<"default">>, "unknown"), name)
    ELSE IF PackageSubmitted(user_input, errors) THEN
        Chained("package",
            async_step_resource([self1 EXCEPT !.config = Update(self1.config, user_input.data)],
                                NoInput, res_resp, res_resp, res_resp))
    ELSE Outcome(self1, async_show_form("package", "in", options, errors), name)

async_step_group(self, user_input, resp, pkg_resp) ==
    LET name == <<"group">>
        groups == get_groups(resp)
        self1 == [self EXCEPT !.groups = groups.value]
        lang == Get(self.config, "language", "en")
        options == [i \in DOMAIN groups.value |-> groups.value[i].name]
        default(errors) == async_show_form("group", "in", <<"default">>, errors)
    IN
    IF groups.exc # "" THEN Outcome(self, default("cannot_connect"), name)
    \* iterating the None that data.get("result") gave
    ELSE IF groups.none THEN Outcome(self1, default("unknown"), name)
    \* GROUP_TRANSLATIONS[lang] for a language without translations
    ELSE IF groups.value # <<>> /\ lang \notin GROUP_TRANSLATIONS
        THEN Outcome(self1, default("unknown"), name)
    ELSE IF user_input.given THEN
        Chained("group",
            async_step_package([self1 EXCEPT !.config = Update(self1.config, user_input.data)],
                               NoInput, pkg_resp, pkg_resp))
    ELSE Outcome(self1,
             IF options = <<>> THEN default("")
             ELSE async_show_form("group", "in", options, ""), name)

async_step_language(self, user_input, grp_resp) ==
    IF user_input.given THEN
        Chained("language",
            async_step_group([self EXCEPT !.config = Update(self.config, user_input.data)],
                             NoInput, grp_resp, grp_resp))
    ELSE Outcome(self, async_show_form("language", "in", SUPPORTED_LANGUAGES, ""),
                 <<"language">>)

async_step_user(self) ==
    Chained("user",
        async_step_language([self EXCEPT !.config = Put(self.config, "name", NAME)],
                            NoInput, CHOOSE r \in NetFailures : TRUE))

-----------------------------------------------------------------------------
(* config_flow.py  _sanitize_entity_name.  A label is the sequence of its   *)
(* characters.                                                              *)

\* config_flow.py:90  name[:64]
MAX_NAME_LENGTH == 64
\* the longest tail of a label of the model, after its run of letters
MaxTail == 3
\* the most successive applications of the sanitizer the model follows
MaxPasses == 2

\* the characters of the labels: a letter, a capital, a digit, separators,
\* the parentheses
Chars == {"a", "B", "1", " ", "_", "-", "(", ")"}
\* str.lower()
ToLower(c) == IF c = "B" THEN "b" ELSE IF c = "N" THEN "n" ELSE c
\* [a-z0-9], over the characters of the labels and of 'unnamed'
IsAlnum(c) == c \in {"a", "b", "1", "u", "n", "m", "e", "d"}
\* 'unnamed'
Unnamed == <<"u", "n", "n", "a", "m", "e", "d">>

RECURSIVE StripParens(_)
\* re.sub(r'\([^)]*\)', '', name): from each "(" that a ")" follows, through
\* the first such ")"
StripParens(s) ==
    IF s = <<>> THEN <<>>
    ELSE LET closes == {j \in 2..Len(s) : s[j] = ")"} IN
         IF s[1] = "(" /\ closes # {}
             THEN StripParens(SubSeq(s, (CHOOSE j \in closes : \A k \in closes : j <= k) + 1,
                                     Len(s)))
         ELSE <<s[1]>> \o StripParens(Tail(s))

RECURSIVE CollapseSeparators(_)
\* re.sub(r'_+', '_', name)
CollapseSeparators(s) ==
    IF Len(s) < 2 THEN s
    ELSE IF s[1] = "_" /\ s[2] = "_" THEN CollapseSeparators(Tail(s))
    ELSE <<s[1]>> \o CollapseSeparators(Tail(s))

\* re.sub(r'[^a-z0-9]+', '_', name): each run of other characters becomes one "_"
ReplaceNonAlnum(s) ==
    CollapseSeparators([i \in DOMAIN s |-> IF IsAlnum(s[i]) THEN s[i] ELSE "_"])

RECURSIVE LStrip(_)
LStrip(s) == IF s # <<>> /\ s[1] = "_" THEN LStrip(Tail(s)) ELSE s
RECURSIVE RStrip(_)
RStrip(s) == IF s # <<>> /\ s[Len(s)] = "_" THEN RStrip(SubSeq(s, 1, Len(s) - 1)) ELSE s
\* name.strip('_')
Strip(s) == RStrip(LStrip(s))

\* a sanitizer that returns the whole name
Uncut(name) == name
\* name[:64]
Cut(name) == Take(name, MAX_NAME_LENGTH)

\* the sanitizer's argument: a Python value, with its truth value (not name is
\* its negation) and the text str(name) gives
Value(type, truthy, text) == [type |-> type, truthy |-> truthy, text |-> text]
\* a str: empty exactly when it is falsy
Str(text) == Value("str", text # <<>>, text)
\* the values that are not str: None, the integers 0 and 1, the floats 1.1 and NaN
NonStrings ==
    {Value("NoneType", FALSE, <<"N", "o", "n", "e">>),
     Value("int", FALSE, <<"0">>),
     Value("int", TRUE, <<"1">>),
     Value("float", TRUE, <<"1", ".", "1">>),
     Value("float", TRUE, <<"n", "a", "n">>)}

_sanitize_entity_name(name) ==
    IF ~name.truthy THEN Unnamed
    ELSE LET lowered == [i \in DOMAIN name.text |-> ToLower(name.text[i])]
             stripped == Strip(CollapseSeparators(ReplaceNonAlnum(StripParens(lowered))))
             cut == Cut(stripped)
         IN IF cut = <<>> THEN Unnamed ELSE cut

\* [a-z0-9_]
IsToken(c) == IsAlnum(c) \/ c = "_"
RECURSIVE ReplaceNonToken(_)
\* re.sub(r'[^a-z0-9_]+', '_', name): each run of other characters becomes one
\* "_", next to the "_" the name already has
ReplaceNonToken(s) ==
    IF s = <<>> THEN <<>>
    ELSE IF IsToken(s[1]) THEN <<s[1]>> \o ReplaceNonToken(Tail(s))
    ELSE IF Len(s) >= 2 /\ ~IsToken(s[2]) THEN ReplaceNonToken(Tail(s))
    ELSE <<"_">> \o ReplaceNonToken(Tail(s))
RECURSIVE LStripSpace(_)
LStripSpace(s) == IF s # <<>> /\ s[1] = " " THEN LStripSpace(Tail(s)) ELSE s
RECURSIVE RStripSpace(_)
RStripSpace(s) ==
    IF s # <<>> /\ s[Len(s)] = " " THEN RStripSpace(SubSeq(s, 1, Len(s) - 1)) ELSE s
\* name.lower().strip()
LowerStrip(s) == RStripSpace(LStripSpace([i \in DOMAIN s |-> ToLower(s[i])]))

\* async_step_confirm, JSON branch: row_name_clean
JsonPreviewRowName(row_name) == ReplaceNonToken(LowerStrip(row_name))
\* async_step_confirm: the entity id shown for a row name and the text the
\* field part is derived from (the measurement's description, or the key)
PreviewEntityId(format, row_name, field_source) ==
    <<IF format = "XML" THEN _sanitize_entity_name(Str(row_name))
      ELSE JsonPreviewRowName(row_name),
      _sanitize_entity_name(Str(field_source))>>
\* OpenDataSensor.__init__ and OpenDataXMLSensor.__init__: clean_row_name,
\* clean_description
CleanName(name) == Strip(CollapseSeparators(ReplaceNonToken(LowerStrip(name))))
\* OpenDataSensor.__init__ and OpenDataXMLSensor.__init__: self.entity_id
SensorEntityId(row_name, description) == <<CleanName(row_name), CleanName(description)>>

\* the entity ids of a name: none yet, or the one the confirm preview shows
\* and the one the sensor is given
NoIds == [named |-> FALSE, format |-> "", preview |-> <<>>, entity |-> <<>>]
Ids(format, preview, entity) ==
    [named |-> TRUE, format |-> format, preview |-> preview, entity |-> entity]

\* the sanitizer's argument, its last result and the result before that one
Label(passes, input, output, previous) ==
    [passes |-> passes, input |-> input, output |-> output, previous |-> previous,
     ids |-> NoIds]
NoLabel == Label(0, Str(<<>>), <<>>, <<>>)

\* the labels the sanitizer is applied to: a run of letters that ends at or just
\* before the cut, followed by any characters up to MaxTail
Letters(n) == [i \in 1..n |-> "a"]
Tails == UNION {[1..k -> Chars] : k \in 0..MaxTail}
Labels ==
    {Letters(n) \o tail :
        n \in {0, MAX_NAME_LENGTH - 2, MAX_NAME_LENGTH - 1}, tail \in Tails}

\* one application of the sanitizer: to its argument, then to its last result
Sanitize ==
    /\ label.passes < MaxPasses
    /\ label' = Label(label.passes + 1, label.input,
                      _sanitize_entity_name(IF label.passes = 0 THEN label.input
                                            ELSE Str(label.output)),
                      label.output)
    /\ UNCHANGED <<_config, _groups, _packages, _resources, _rows_data, result, cur_step,
                   trail, call, fetched, request, binder_vars, host>>

\* the confirm preview and the sensor's constructor name an entity of a JSON or
\* XML binding, for a row name and a field description that are the label
NameEntity ==
    /\ label.passes = 0
    /\ label.input.type = "str"
    /\ ~label.ids.named
    /\ \E format \in {"JSON", "XML"} :
           label' = [label EXCEPT !.ids =
                        Ids(format,
                            PreviewEntityId(format, label.input.text, label.input.text),
                            SensorEntityId(label.input.text, label.input.text))]
    /\ UNCHANGED <<_config, _groups, _packages, _resources, _rows_data, result, cur_step,
                   trail, call, fetched, request, binder_vars, host>>

-----------------------------------------------------------------------------
(* The wizard driven by the host: the flow manager calls async_step_user,   *)
(* then the handler of the form it shows, with an input the form's schema   *)
(* accepts.  A handler that raises or returns no result leaves the shown    *)
(* form in place.                                                           *)

Self == [config |-> _config, groups |-> _groups, packages |-> _packages,
         resources |-> _resources, rows_data |-> _rows_data]

NotStarted ==
    [type |-> "init", step_id |-> "", schema |-> "", options |-> <<>>,
     errors |-> "", title |-> "", data |-> EmptyDict, preview |-> <<>>]

\* the selections of the fields form the model submits: prefixes of the option list
Selections(options) ==
    {SubSeq(options, 1, n) :
        n \in {0, 1, 2, MAX_SENSORS, MAX_SENSORS + 1, Len(options)} \cap 0..Len(options)}
\* the coordinate entries the model submits: A, B, D, AA, the digit 1 and "@",
\* the character before "A"
ColumnEntries == {<<0>>, <<1>>, <<3>>, <<0, 0>>, <<-16>>, <<-1>>}
MaxCellRow == 3

\* the kinds of discovery data the wizard requests from upstream
DiscoveryKinds == {"groups", "packages", "resources", "rows"}
\* whether a call of the host requested data of the kind: the group, package
\* and resource handlers request theirs each time they run, the rows handler
\* when it runs for a format it loads rows for and self._rows_data is empty
Requested(kind, outcome) ==
    IF kind = "groups" THEN "group" \in Range(outcome.chain)
    ELSE IF kind = "packages" THEN "package" \in Range(outcome.chain)
    ELSE IF kind = "resources" THEN "resource" \in Range(outcome.chain)
    ELSE /\ "rows" \in Range(outcome.chain)
         /\ _rows_data = <<>>
         /\ Get(outcome.self.config, "resource_format", "")
                \in {"JSON", "XLSX", "XLS", "CSV", "XML"}
\* one more request
OnceMore(count) == IF count = "never" THEN "once" ELSE "again"

Showing(step_id) == cur_step.type = "form" /\ cur_step.step_id = step_id
Choices == Range(cur_step.options)

Apply(user_input, outcome) ==
    /\ _config' = outcome.self.config
    /\ _groups' = outcome.self.groups
    /\ _packages' = outcome.self.packages
    /\ _resources' = outcome.self.resources
    /\ _rows_data' = outcome.self.rows_data
    /\ result' = outcome.res
    /\ cur_step' = IF outcome.res.type \in {"form", "create_entry"} THEN outcome.res
                   ELSE cur_step
    /\ trail' = trail \o SelectSeq(SubSeq(outcome.chain, 1, Len(outcome.chain) - 1),
                                   LAMBDA h : h \notin Range(trail))
    /\ call' = [step |-> outcome.chain[1], given |-> user_input.given,
                data |-> user_input.data, chain |-> outcome.chain]
    /\ fetched' = [kind \in DiscoveryKinds |->
                       IF Requested(kind, outcome) THEN OnceMore(fetched[kind])
                       ELSE fetched[kind]]
    \* both confirm steps store the binding under self.flow_id before they emit it
    /\ host' = IF outcome.res.type = "create_entry"
                   THEN [host EXCEPT !.data = @ \cup {flow_id}]
               ELSE host
    /\ UNCHANGED <<label, request, binder_vars>>

Start ==
    /\ cur_step.type = "init"
    /\ Apply(NoInput, async_step_user(Self))

SubmitLanguage ==
    /\ Showing("language")
    /\ \E v \in Choices, grp_resp \in GroupListResponses :
           LET user_input == Input(("language" :> v)) IN
           Apply(user_input, async_step_language(Self, user_input, grp_resp))

SubmitGroup ==
    /\ Showing("group")
    /\ \E v \in Choices, resp \in GroupListResponses, pkg_resp \in GroupShowResponses :
           LET user_input == Input(("group_id" :> v)) IN
           Apply(user_input, async_step_group(Self, user_input, resp, pkg_resp))

SubmitPackage ==
    /\ Showing("package")
    /\ \E v \in Choices, resp \in GroupShowResponses, res_resp \in PackageShowResponses :
           LET user_input == Input(("package_id" :> v)) IN
           Apply(user_input, async_step_package(Self, user_input, resp, res_resp))

\* the declared format of the resource the upstream lists under an id
DeclaredFormat(id) ==
    LET found == FindResource(CatalogA, id) IN CatalogA[CHOOSE i \in found : TRUE].format

SubmitResource ==
    /\ Showing("resource")
    /\ \E v \in Choices, resp \in PackageShowResponses :
       \E data_resp \in DataResponses(DeclaredFormat(v.id)) :
       \E second \in SecondFor(data_resp) :
           LET user_input == Input(("resource_id" :> v)) IN
           Apply(user_input, async_step_resource(Self, user_input, resp, data_resp, second))

SubmitRows ==
    /\ Showing("rows")
    /\ \E data_resp \in DataResponses(Get(_config, "resource_format", "")) :
       \E second \in SecondFor(data_resp) :
          \E input \in IF cur_step.schema = "empty" THEN {EmptyDict}
                       ELSE {("row" :> v) : v \in Choices} :
              Apply(Input(input), async_step_rows(Self, Input(input), data_resp, second))

SubmitFields ==
    /\ Showing("fields")
    /\ \E input \in IF cur_step.schema = "empty" THEN {EmptyDict}
                    ELSE {("fields" :> sel) : sel \in Selections(cur_step.options)} :
           Apply(Input(input), async_step_fields(Self, Input(input)))

SubmitConfirm ==
    /\ Showing("confirm")
    /\ Apply(Input(EmptyDict), async_step_confirm(Self, Input(EmptyDict)))

SubmitExcelCoordinates ==
    /\ Showing("excel_coordinates")
    /\ \E column \in ColumnEntries, row \in 1..MaxCellRow, resp \in BinaryResponses :
           LET user_input == Input(("excel_column" :> column) @@ ("excel_row" :> row)) IN
           Apply(user_input, async_step_excel_coordinates(Self, user_input, resp))

SubmitExcelConfirm ==
    /\ Showing("excel_confirm")
    /\ LET user_input == Input(("sensor_name" :> "Cell")) IN
       Apply(user_input, async_step_excel_confirm(Self, user_input))

\* the flow object as __init__ leaves it
Constructed ==
    /\ _config = EmptyDict
    /\ _groups = <<>>
    /\ _packages = <<>>
    /\ _resources = <<>>
    /\ _rows_data = <<>>
    /\ result = NotStarted
    /\ cur_step = NotStarted
    /\ trail = <<>>
    /\ call = [step |-> "", given |-> FALSE, data |-> EmptyDict, chain |-> <<>>]
    /\ fetched = [kind \in DiscoveryKinds |-> "never"]

\* the client before its first call
NoRequest ==
    [method |-> "", endpoint |-> "", requests |-> 0,
     resp |-> Response("ok", "", FALSE, EmptyDict),
     second |-> Response("ok", "", FALSE, EmptyDict), outcome |-> ReturnNone]

WizardInit ==
    /\ Constructed
    /\ label = NoLabel
    /\ request = NoRequest

-----------------------------------------------------------------------------
(* The polling side: sensor.py and device_tracker.py.  coordinator.data is *)
(* the binding's snapshot, a JList or a JDict.                             *)

\* hass.data[DOMAIN][entry_id] as __init__.async_setup_entry stores it
EntryData(config_data) ==
    [config |-> config_data,
     rows_data |-> Get(config_data, "rows_data", <<>>),
     resources |-> Get(config_data, "resources", <<>>)]

\* url = config.get("resource_url") is there and not empty
HasUrl(config) == "resource_url" \in DOMAIN config /\ config["resource_url"].url # ""

\* a body with no except clause around it
Unguarded(body, fallback) == body
\* try: body  except Exception: return fallback
Guarded(body, fallback) == IF body.exc # "" THEN Return(fallback) ELSE body

\* sensor.py setup_standard_sensors.async_update_data
async_update_data(entry, resp, second) ==
    LET rows_data == JList(entry.rows_data)
        data == get_resource_data(resp, second)
    IN Guarded(
           IF ~HasUrl(entry.config) THEN Return(rows_data)
           ELSE IF data.exc # "" THEN data
           ELSE IF data.value.kind = "dict" /\ "rows" \in DOMAIN data.value.dict
               THEN Return(JList(data.value.dict["rows"]))
           ELSE IF data.value.kind = "list" THEN Return(data.value)
           ELSE Return(rows_data),
           rows_data)

\* sensor.py setup_xlsx_sensors.async_update_xlsx_data
async_update_xlsx_data(entry, resp) ==
    LET response == get_resource_binary(resp)
        df == read_table(response.value, DEFAULT_NA)
    IN Guarded(
           IF ~HasUrl(entry.config) THEN Return(JList(<<>>))
           ELSE IF response.exc # "" THEN response
           ELSE IF df.exc # "" THEN df
           ELSE Return(JList(df.value.records)),
           JList(<<>>))

\* sensor.py setup_xml_sensors.async_update_xml_data
async_update_xml_data(entry, resp) ==
    LET rows_data == JList(entry.rows_data)
        data == get_resource_binary(resp)
    IN Guarded(
           IF ~HasUrl(entry.config) THEN Return(rows_data)
           ELSE IF data.exc # "" THEN data
           ELSE Guarded(
                    IF data.value.corrupt THEN Raise("ExpatError")
                    ELSE IF data.value.rooted THEN Return(data.value.stations)
                    ELSE Return(rows_data),
                    rows_data),
           rows_data)

\* device_tracker.py async_setup_entry.async_update_data
tracker_async_update_data(entry, resp) ==
    LET features == get_wfs_features(resp) IN
    Guarded(
        IF "resource_url" \notin DOMAIN entry.config THEN Raise("KeyError")
        ELSE Return(JList(features.value)),
        JList(<<>>))

\* the update method of a coordinator of the given kind
update_method(kind, entry, resp, second) ==
    IF kind = "xlsx" THEN async_update_xlsx_data(entry, resp)
    ELSE IF kind = "xml" THEN async_update_xml_data(entry, resp)
    ELSE IF kind = "wfs" THEN tracker_async_update_data(entry, resp)
    ELSE async_update_data(entry, resp, second)

\* whether the fetch of a refresh failed: a transport error, a timeout, or a
\* payload the parser rejects
FetchFailed(kind, resp, second) ==
    IF kind = "xlsx"
        THEN get_resource_binary(resp).exc # "" \/ read_table(resp.body, DEFAULT_NA).exc # ""
    ELSE IF kind = "xml" THEN get_resource_binary(resp).exc # "" \/ resp.body.corrupt
    ELSE IF kind = "wfs" THEN resp.net # "ok" \/ ~resp.parses \/ ~JsonContentType(resp.ctype)
    ELSE get_resource_data(resp, second).exc # ""

-----------------------------------------------------------------------------
(* The entities: sensor.py OpenDataSensor, OpenDataXMLSensor,              *)
(* OpenDataXLSXSensor and device_tracker.py WFSPointEntity.  An entity is  *)
(* the record of the fields its constructor sets.                          *)

\* ConfigEntry.entry_id of the binding
entry_id == "entry1"
\* the feature slot of an entity that is not made from a feature
NoFeature == Feature(0)
Entity(cls, unique_id, row_idx, field, feature) ==
    [cls |-> cls, unique_id |-> unique_id, row_idx |-> row_idx, field |-> field,
     feature |-> feature]

\* OpenDataSensor.__init__: f"{entry_id}_{row_idx}_{field_type}_{field}"
OpenDataSensor(row_idx, field, row_name, description, field_type) ==
    Entity("OpenDataSensor", <<entry_id, ToString(row_idx), field_type, field>>,
           row_idx, field, NoFeature)
\* OpenDataXMLSensor.__init__: f"{entry_id}_xml_{row_idx}_{field}"
OpenDataXMLSensor(row_idx, field, row_name, description) ==
    Entity("OpenDataXMLSensor", <<entry_id, "xml", ToString(row_idx), field>>,
           row_idx, field, NoFeature)
\* OpenDataXLSXSensor.__init__: f"{entry_id}_xlsx_{row_idx}_{clean_column}"
OpenDataXLSXSensor(row_idx, column, base_name, clean_column) ==
    Entity("OpenDataXLSXSensor", <<entry_id, "xlsx", ToString(row_idx), clean_column>>,
           row_idx, column, NoFeature)
\* WFSPointEntity.__init__: f"wfs_{config.get('resource_id')}_{feature.get('id', '')}"
WFSPointEntity(config, feature) ==
    Entity("WFSPointEntity",
           <<"wfs", Get(config, "resource_id", None),
             IF "id" \in DOMAIN feature THEN ToString(feature.id) ELSE "">>,
           0 - 1, "", feature)

\* the constructors call row_name.lower() and description.lower(): they raise
\* on a name that is not a str, and the loop's except skips the field
Creatable(row_name, description) == IsStr(row_name) /\ IsStr(description)
\* re.sub(r'[^a-z0-9_]+', '_', column.lower().strip()) on the columns of the model
CleanColumn(column) ==
    IF column = "ID" THEN "id"
    ELSE IF column = "Name" THEN "name"
    ELSE IF column = "Value" THEN "value"
    ELSE column

RECURSIVE Concat(_)
\* the lists of a list of lists, one after the other
Concat(seqs) == IF seqs = <<>> THEN <<>> ELSE Head(seqs) \o Concat(Tail(seqs))

\* a sensor setup that takes the last row of the snapshot for out of range
RowOutOfRangeFromOne(row_idx, rows_data) == row_idx + 1 >= Len(rows_data)
\* setup_standard_sensors: if row_idx >= len(rows_data): continue
RowOutOfRange(row_idx, rows_data) == row_idx >= Len(rows_data)

\* setup_standard_sensors, the loop over selected_fields for one row
StandardRowSensors(entry, row_idx) ==
    LET row == At(entry.rows_data, row_idx)
        row_name == Get(row, "name", "row")
        selected_fields == Get(entry.config, "selected_fields", <<>>)
        sensor(field_type, key) ==
            LET found == FindMeasurement(row, key)
                measurement ==
                    Get(row, "measurements", <<>>)[CHOOSE j \in found : \A k \in found : j <= k]
            IN IF field_type = "measurement" THEN
                   IF found = {} THEN <<>>
                   ELSE IF ~Creatable(row_name, Get(measurement, "description", key)) THEN <<>>
                   ELSE <<OpenDataSensor(row_idx, key, row_name,
                                         Get(measurement, "description", key), field_type)>>
               ELSE IF ~Creatable(row_name, key) THEN <<>>
               ELSE <<OpenDataSensor(row_idx, key, row_name, key, field_type)>>
    IN Concat([i \in DOMAIN selected_fields |->
                  sensor(selected_fields[i][1], selected_fields[i][2])])

\* setup_standard_sensors: the entities handed to async_add_entities
setup_standard_sensors(entry) ==
    LET selected_rows == Get(entry.config, "selected_rows", <<>>) IN
    Concat([i \in DOMAIN selected_rows |->
               IF RowOutOfRange(selected_rows[i], entry.rows_data) THEN <<>>
               ELSE StandardRowSensors(entry, selected_rows[i])])

\* setup_xml_sensors, the loop over selected_fields for one row; the rows of
\* the model carry no graphics list, so a measurement selector finds no graphic
XmlRowSensors(entry, row_idx) ==
    LET row == At(entry.rows_data, row_idx)
        row_name == Get(row, "name", "station")
        selected_fields == Get(entry.config, "selected_fields", <<>>)
        sensor(field_type, key) ==
            IF field_type = "measurement" THEN <<>>
            ELSE IF ~Creatable(row_name, key) THEN <<>>
            ELSE <<OpenDataXMLSensor(row_idx, key, row_name, key)>>
    IN Concat([i \in DOMAIN selected_fields |->
                  sensor(selected_fields[i][1], selected_fields[i][2])])

\* setup_xml_sensors: the entities handed to async_add_entities
setup_xml_sensors(entry) ==
    LET selected_rows == Get(entry.config, "selected_rows", <<>>) IN
    Concat([i \in DOMAIN selected_rows |->
               IF selected_rows[i] >= Len(entry.rows_data) THEN <<>>
               ELSE XmlRowSensors(entry, selected_rows[i])])

\* not self.coordinator.data
Falsy(data) == IF data.kind = "list" THEN data.list = <<>> ELSE DOMAIN data.dict = {}
\* len(self.coordinator.data)
PyLen(data) == IF data.kind = "list" THEN Len(data.list) ELSE Cardinality(DOMAIN data.dict)

\* setup_xlsx_sensors: the entities handed to async_add_entities, made from the
\* first refresh's data; coordinator.data[selected_row_idx] out of range ends
\* the platform's setup with IndexError and no entity
setup_xlsx_sensors(entry, data) ==
    LET selected_row_idx == entry.config["selected_rows"][1]
        selected_fields == entry.config["selected_fields"]
        row == At(data.list, selected_row_idx)
        base_name == row[Keys(row)[1]]
    IN IF Falsy(data) THEN <<>>
       ELSE IF ~InRange(data.list, selected_row_idx) THEN <<>>
       ELSE [i \in DOMAIN selected_fields |->
                OpenDataXLSXSensor(selected_row_idx, selected_fields[i][2], base_name,
                                   CleanColumn(selected_fields[i][2]))]

\* device_tracker.py async_setup_entry: one entity per feature of the first
\* refresh's data
tracker_setup_entities(entry, data) ==
    [i \in DOMAIN data.list |-> WFSPointEntity(entry.config, data.list[i])]

\* DataUpdateCoordinator.last_update_success: the last call of the update
\* method did not raise
last_update_success == last_update.ended # "raised"

\* the available property of an entity: OpenDataSensor defines its own, the
\* other classes define none and inherit CoordinatorEntity's, which is
\* coordinator.last_update_success
available(e) ==
    IF e.cls = "OpenDataSensor"
        THEN ~Falsy(coordinator.data) /\ e.row_idx < PyLen(coordinator.data)
    ELSE last_update_success

\* native_value of the three sensor classes over the coordinator's data.  On
\* a dict, data[row_idx] raises KeyError, which each class catches
native_value(e, data) ==
    IF Falsy(data) \/ e.row_idx >= PyLen(data) THEN None
    ELSE IF data.kind # "list" THEN None
    ELSE LET row == At(data.list, e.row_idx) IN
         IF e.cls = "OpenDataXMLSensor" THEN
             \* self._field is field.lower(); no graphics list in the rows of the model
             LET value == Get(row, Lower(e.field), None) IN
             IF value = "--" THEN None ELSE value
         ELSE Get(row, e.field, None)

\* a tracker that reads its feature from the coordinator's data
FeatureFromSnapshot(e, data) ==
    LET at == {i \in DOMAIN data.list :
                  Get(data.list[i], "id", 0 - 1) = Get(e.feature, "id", 0 - 1)} IN
    IF at = {} THEN NoFeature ELSE data.list[CHOOSE i \in at : TRUE]
\* WFSPointEntity: self._feature, set by the constructor
_feature(e, data) == e.feature

\* WFSPointEntity.state
state(e) == "present"
\* feature["geometry"]["coordinates"][n] under except (KeyError, IndexError):
\* return None.  Subscripting the None of a null geometry is a TypeError.
Coordinate(feature, n) ==
    IF "geometry" \notin DOMAIN feature THEN ReturnNone
    ELSE IF feature.geometry = Null THEN Raise("TypeError")
    ELSE IF "coordinates" \notin DOMAIN feature.geometry THEN ReturnNone
    ELSE IF n >= Len(feature.geometry.coordinates) THEN ReturnNone
    ELSE Return(At(feature.geometry.coordinates, n))
\* WFSPointEntity.latitude: self._feature["geometry"]["coordinates"][1]
latitude(e) == Coordinate(_feature(e, coordinator.data), 1)
\* WFSPointEntity.longitude: self._feature["geometry"]["coordinates"][0]
longitude(e) == Coordinate(_feature(e, coordinator.data), 0)
\* WFSPointEntity.extra_state_attributes: the properties that are not None
extra_state_attributes(e) ==
    LET properties == _feature(e, coordinator.data).properties IN
    [k \in {k \in DOMAIN properties : properties[k] # None} |-> properties[k]]

\* an entity list that is rebuilt from every snapshot
Rematerialized(es, data) == SelectSeq(es, LAMBDA e : e.row_idx < PyLen(data))
\* a refresh tells the entities that listen to the coordinator; no platform
\* calls async_add_entities outside its setup
Listening(es, data) == es

Inactive == [active |-> FALSE, kind |-> "", data |-> JList(<<>>), refreshes |-> 0]
\* the table a refresh of a CSV or spreadsheet binding was answered with, when
\* it was
Delivery(format, resp) ==
    IF format \in {"CSV", "XLS", "XLSX"} /\ resp.net = "ok"
        THEN [delivered |-> TRUE, payload |-> resp.body]
    ELSE [delivered |-> FALSE, payload |-> CorruptBytes]
NoUpdate == [ended |-> "none", failed |-> FALSE, scheduled |-> FALSE, before |-> JList(<<>>),
             table |-> [delivered |-> FALSE, payload |-> CorruptBytes]]

\* DataUpdateCoordinator: one call of the update method; an exception keeps the data
Refreshed(kind, scheduled, resp, second) ==
    LET outcome == update_method(kind, entry_data, resp, second) IN
    /\ coordinator' =
           [active |-> scheduled \/ outcome.exc = "",
            kind |-> kind,
            data |-> IF outcome.exc = "" THEN outcome.value ELSE coordinator.data,
            refreshes |-> coordinator.refreshes + 1]
    /\ last_update' =
           [ended |-> IF outcome.exc = "" THEN "returned" ELSE "raised",
            failed |-> FetchFailed(kind, resp, second),
            scheduled |-> scheduled,
            before |-> coordinator.data,
            table |-> Delivery(Get(entry_data.config, "resource_format", ""), resp)]

\* a stored list that a step overwrites with the rows of the snapshot it ends
\* with: rows_data[:] = rows
WrittenThrough(entry, snapshot) ==
    IF snapshot.kind = "list" THEN [entry EXCEPT !.rows_data = snapshot.list] ELSE entry
\* hass.data[DOMAIN][entry_id] after a platform's setup or a refresh that ends
\* with the snapshot: the setups, the update methods and the entities read
\* entry_data["config"] and entry_data["rows_data"] and assign to none of
\* their items, also where coordinator.data is the stored list itself
Persisted(entry, snapshot) == entry

\* the answers the URL of a binding of the given format may give to a refresh
RefreshResponses(format) ==
    IF format = "CSV"
        THEN NetFailures
             \cup {Response("ok", ct, FALSE, b) : ct \in {CT_CSV, CT_XLS}, b \in {SheetC, SheetD}}
    ELSE IF format = "WFS" THEN WfsResponses \cup OddCollections
    ELSE DataResponses(format)

\* sensor.py async_setup_entry.  For a WFS binding the coordinator made here
\* has no entity listening and is never refreshed: the binding's coordinator
\* is the tracker platform's.
SetupSensors ==
    LET config == entry_data.config
        resource_format == Get(config, "resource_format", "")
    IN
    /\ entry_data # EmptyDict
    /\ coordinator.kind = ""
    /\ resource_format # "WFS"
    /\ IF resource_format \in XLSX_SUPPORTED_FORMATS THEN
           \* config["selected_rows"][0], config["selected_fields"]
           IF "selected_rows" \in DOMAIN config /\ config["selected_rows"] # <<>>
              /\ "selected_fields" \in DOMAIN config
               THEN \E resp \in RefreshResponses(resource_format) :
                        /\ Refreshed("xlsx", FALSE, resp, resp)
                        /\ entities' = setup_xlsx_sensors(entry_data, coordinator'.data)
           ELSE /\ coordinator' = [coordinator EXCEPT !.kind = "setup_error"]
                /\ UNCHANGED <<last_update, entities>>
       ELSE IF resource_format = "XML" THEN
           \E resp \in RefreshResponses(resource_format) :
               /\ Refreshed("xml", FALSE, resp, resp)
               /\ entities' = setup_xml_sensors(entry_data)
       ELSE
           /\ coordinator' = [active |-> TRUE, kind |-> "standard",
                              data |-> JList(entry_data.rows_data), refreshes |-> 0]
           /\ entities' = setup_standard_sensors(entry_data)
           /\ UNCHANGED last_update
    /\ entry_data' = Persisted(entry_data, coordinator'.data)
    /\ UNCHANGED <<wizard_vars, host>>

\* a tracker platform that sets up entities for a binding of any format
TrackerPlatformAlwaysRuns(config) == TRUE
\* device_tracker.py async_setup_entry: the platform returns at once unless
\* config.get("resource_format") is WFS
TrackerPlatformRuns(config) == Get(config, "resource_format", "") = "WFS"

\* device_tracker.py async_setup_entry
SetupTrackers ==
    LET config == entry_data.config IN
    /\ entry_data # EmptyDict
    /\ coordinator.kind = ""
    /\ TrackerPlatformRuns(config)
    /\ IF FindResource(Get(config, "resources", <<>>), Get(config, "resource_id", None)) = {}
           THEN /\ coordinator' = [coordinator EXCEPT !.kind = "setup_error"]
                /\ UNCHANGED <<last_update, entities>>
       ELSE \E resp \in RefreshResponses("WFS") :
                /\ Refreshed("wfs", FALSE, resp, resp)
                /\ entities' = tracker_setup_entities(entry_data, coordinator'.data)
    /\ entry_data' = Persisted(entry_data, coordinator'.data)
    /\ UNCHANGED <<wizard_vars, host>>

\* a scheduled refresh of the binding's coordinator
Refresh ==
    /\ coordinator.active
    /\ coordinator.refreshes < MaxRefresh
    /\ \E resp \in RefreshResponses(Get(entry_data.config, "resource_format", "")) :
       \E second \in SecondFor(resp) :
           /\ Refreshed(coordinator.kind, TRUE, resp, second)
           /\ entities' = Listening(entities, coordinator'.data)
    /\ entry_data' = Persisted(entry_data, coordinator'.data)
    /\ UNCHANGED <<wizard_vars, host>>

\* the bindings the polling side is followed for: what the confirm steps store
\* for a resource of each format, and an XML binding
Binding(format, id, selection, rows) ==
    ("name" :> NAME) @@ ("language" :> "en") @@ ("group_id" :> "weather")
    @@ ("package_id" :> "pkg1") @@ ("resource_id" :> id) @@ ("resource_format" :> format)
    @@ ("resource_url" :> ResourceUrl("http://u", "en"))
    @@ selection @@ ("rows_data" :> rows) @@ ("resources" :> CatalogA)
    @@ ("unique_id" :> flow_id)
RowSelection(idx, fields) == ("selected_rows" :> <<idx>>) @@ ("selected_fields" :> fields)
SheetRows == dropna_all(read_table(SheetC, DEFAULT_NA).value.records)
Bindings ==
    { Binding("JSON", "r_json", RowSelection(0, <<FieldOption("measurement", "t")>>),
              <<Bolzano, Merano>>),
      Binding("CSV", "r_csv", RowSelection(1, <<FieldOption("field", "Value")>>), SheetRows),
      Binding("XLS", "r_xls", RowSelection(1, <<FieldOption("field", "Value")>>), SheetRows),
      \* a sheet with the columns Value and value, both selected
      Binding("XLS", "r_xls",
              RowSelection(0, <<FieldOption("field", "Value"), FieldOption("field", "value")>>),
              dropna_all(read_table(SheetV, DEFAULT_NA).value.records)),
      \* the spreadsheet-coordinate path stores a cell, no row selection
      Binding("XLSX", "r_xlsx",
              ("excel_column" :> <<0>>) @@ ("excel_row" :> 1) @@ ("sensor_name" :> "Cell"),
              <<>>),
      Binding("XML", "r_xml", RowSelection(0, <<FieldOption("field", "t")>>),
              <<XmlStation("Brenner")>>),
      Binding("WFS", "r_wfs", EmptyDict, Features(3)),
      \* a WFS binding whose resource the stored resource list no longer names
      Binding("WFS", "r_gone", EmptyDict, Features(1)) }

\* hass.data[DOMAIN] before a wizard run
NoHost == [data |-> {}, setups |-> 0, unloaded |-> "never"]
\* __init__.py async_setup_entry: hass.data[DOMAIN][entry.entry_id] = {...},
\* then the platforms are set up
async_setup_entry(h) == [h EXCEPT !.data = @ \cup {entry_id}, !.setups = @ + 1]
\* __init__.py async_unload_entry: hass.data[DOMAIN].pop(entry.entry_id) if
\* async_unload_platforms returned True
async_unload_entry(h, unload_ok) ==
    IF unload_ok THEN [data |-> h.data \ {entry_id}, setups |-> 0, unloaded |-> "ok"]
    ELSE [h EXCEPT !.unloaded = "failed"]
\* __init__.py async_reload_entry: await async_unload_entry(hass, entry), then
\* await async_setup_entry(hass, entry)
async_reload_entry(h, unload_ok) == async_setup_entry(async_unload_entry(h, unload_ok))

BinderInit ==
    /\ WizardInit
    /\ entry_data \in {EntryData(b) : b \in Bindings}
    /\ coordinator = Inactive
    /\ last_update = NoUpdate
    /\ entities = <<>>
    /\ host = [data |-> {flow_id, entry_id}, setups |-> 1, unloaded |-> "never"]

BinderNext ==
    \/ SetupSensors
    \/ SetupTrackers
    \/ Refresh

BinderSpec == BinderInit /\ [][BinderNext]_vars

Init ==
    /\ WizardInit
    /\ entry_data = EmptyDict
    /\ coordinator = Inactive
    /\ last_update = NoUpdate
    /\ entities = <<>>
    /\ host = NoHost

Next ==
    \/ Start
    \/ SubmitLanguage
    \/ SubmitGroup
    \/ SubmitPackage
    \/ SubmitResource
    \/ SubmitRows
    \/ SubmitFields
    \/ SubmitConfirm
    \/ SubmitExcelCoordinates
    \/ SubmitExcelConfirm

Spec == Init /\ [][Next]_vars

\* __init__.py async_setup_entry: the host activates the binding the wizard
\* emitted, from the data it persisted
Activate ==
    /\ cur_step.type = "create_entry"
    /\ entry_data = EmptyDict
    /\ entry_data' = EntryData(cur_step.data)
    /\ host' = async_setup_entry(host)
    /\ UNCHANGED <<wizard_vars, coordinator, last_update, entities>>

SanitizeInit ==
    /\ Constructed
    /\ label \in {Label(0, v, v.text, v.text) : v \in {Str(x) : x \in Labels} \cup NonStrings}
    /\ request = NoRequest
    /\ entry_data = EmptyDict
    /\ coordinator = Inactive
    /\ last_update = NoUpdate
    /\ entities = <<>>
    /\ host = NoHost

SanitizeNext ==
    \/ Sanitize
    \/ NameEntity

\* the name sanitizer applied again and again to a label
SanitizeSpec == SanitizeInit /\ [][SanitizeNext]_vars

LifeNext ==
    \/ Next
    \/ Activate
    \/ SetupSensors
    \/ SetupTrackers

\* the wizard, then the activation of the binding it emitted and the setup of
\* its platforms; the polling that follows is BinderSpec's
LifeSpec == Init /\ [][LifeNext]_vars

\* __init__.py async_unload_entry, with the answer of async_unload_platforms;
\* the platforms that unloaded took their coordinator and entities with them
UnloadEntry ==
    /\ entry_data # EmptyDict
    /\ \E unload_ok \in BOOLEAN :
           /\ host' = async_unload_entry(host, unload_ok)
           /\ IF unload_ok
                  THEN /\ entry_data' = EmptyDict
                       /\ coordinator' = Inactive
                       /\ last_update' = NoUpdate
                       /\ entities' = <<>>
              ELSE UNCHANGED binder_vars
    /\ UNCHANGED wizard_vars

\* __init__.py async_reload_entry, run by update_listener: the unload, then the
\* setup whatever the unload returned.  The setup makes the platforms build a
\* new coordinator; after a failed unload the entities of the earlier setup
\* are still there.
ReloadEntry ==
    /\ entry_data # EmptyDict
    /\ host.setups < MaxSetups
    /\ \E unload_ok \in BOOLEAN :
           /\ host' = async_reload_entry(host, unload_ok)
           /\ entities' = IF unload_ok THEN <<>> ELSE entities
    /\ entry_data' = EntryData(cur_step.data)
    /\ coordinator' = Inactive
    /\ last_update' = NoUpdate
    /\ UNCHANGED wizard_vars

\* the resource a binding was made for, by its name
Title(b) ==
    LET found == FindResource(b["resources"], b["resource_id"]) IN
    IF found = {} THEN NAME ELSE b["resources"][CHOOSE i \in found : TRUE].name

\* a binding right after a confirm step emitted it: stored under the flow's
\* id and handed to the host
HostInit ==
    /\ _config = EmptyDict
    /\ _groups = <<>>
    /\ _packages = <<>>
    /\ _resources = <<>>
    /\ _rows_data = <<>>
    /\ result \in {async_create_entry(Title(b), b) : b \in Bindings}
    /\ cur_step = result
    /\ trail = <<>>
    /\ call = [step |-> "", given |-> FALSE, data |-> EmptyDict, chain |-> <<>>]
    /\ fetched = [kind \in DiscoveryKinds |-> "never"]
    /\ label = NoLabel
    /\ request = NoRequest
    /\ entry_data = EmptyDict
    /\ coordinator = Inactive
    /\ last_update = NoUpdate
    /\ entities = <<>>
    /\ host = [data |-> {flow_id}, setups |-> 0, unloaded |-> "never"]

HostNext ==
    \/ Activate
    \/ SetupSensors
    \/ SetupTrackers
    \/ UnloadEntry
    \/ ReloadEntry

\* an emitted binding in the host's hands: set up, unloaded, reloaded
HostSpec == HostInit /\ [][HostNext]_vars

-----------------------------------------------------------------------------
(* The client called on its own: api.py OpenDataBolzanoApiClient, each     *)
(* method with the exchanges the upstream may answer with                  *)

Request(method, endpoint, requests, resp, second, outcome) ==
    [method |-> method, endpoint |-> endpoint, requests |-> requests, resp |-> resp,
     second |-> second, outcome |-> outcome]

\* the action endpoints of the catalog the client calls
Endpoints == {"group_list", "group_show", "package_show"}
\* an envelope that reports success and carries no result
BareEnvelope == ("success" :> TRUE)
\* an envelope without a success flag
UnflaggedEnvelope == ("result" :> GroupList)
EndpointResponses(endpoint) ==
    (IF endpoint = "group_list" THEN GroupListResponses
     ELSE IF endpoint = "group_show" THEN GroupShowResponses
     ELSE PackageShowResponses)
    \cup {Response("ok", CT_JSON, TRUE, BareEnvelope),
          Response("ok", CT_JSON, TRUE, UnflaggedEnvelope),
          Response("ok", CT_XML, FALSE, EmptyDict)}

\* the answers of a resource URL: those of each declared format, and a
\* spreadsheet served under either spreadsheet content type
UrlKinds == {"JSON", "WFS", "XML", "XLS", "SHEET"}
UrlResponses(kind) ==
    IF kind = "SHEET"
        THEN {Response("ok", ct, FALSE, b) :
                 ct \in {CT_XLS, CT_XLSX}, b \in {CorruptBytes, SheetC, SheetD, SheetEmpty}}
    ELSE DataResponses(kind)

\* get_resource_data: the HTTP requests one call issues
RequestsIssued(resp) ==
    IF resp.net # "ok" THEN 1
    ELSE IF ContainsExcelOrXls(resp.ctype) THEN 1
    ELSE IF ContainsXml(resp.ctype) THEN 2
    ELSE 1

\* the answers to the re-issued request, when the call issues one
SecondExchanges(resp) == IF RequestsIssued(resp) = 2 THEN WfsResponses ELSE {resp}

ApiCall ==
    /\ \E endpoint \in Endpoints :
       \E resp \in EndpointResponses(endpoint) :
           request' = Request("_api_call", endpoint, 1, resp, resp, _api_call(resp))
    /\ UNCHANGED <<_config, _groups, _packages, _resources, _rows_data, result, cur_step,
                   trail, call, fetched, label, binder_vars, host>>

GetResourceData ==
    /\ \E kind \in UrlKinds :
       \E resp \in UrlResponses(kind) :
       \E second \in SecondExchanges(resp) :
           request' = Request("get_resource_data", "", RequestsIssued(resp), resp, second,
                              get_resource_data(resp, second))
    /\ UNCHANGED <<_config, _groups, _packages, _resources, _rows_data, result, cur_step,
                   trail, call, fetched, label, binder_vars, host>>

GetResourceBinary ==
    /\ \E kind \in UrlKinds :
       \E resp \in UrlResponses(kind) :
           request' = Request("get_resource_binary", "", 1, resp, resp,
                              get_resource_binary(resp))
    /\ UNCHANGED <<_config, _groups, _packages, _resources, _rows_data, result, cur_step,
                   trail, call, fetched, label, binder_vars, host>>

GetWfsFeatures ==
    /\ \E resp \in UrlResponses("WFS") :
           request' = Request("get_wfs_features", "", 1, resp, resp, get_wfs_features(resp))
    /\ UNCHANGED <<_config, _groups, _packages, _resources, _rows_data, result, cur_step,
                   trail, call, fetched, label, binder_vars, host>>

ClientNext ==
    \/ ApiCall
    \/ GetResourceData
    \/ GetResourceBinary
    \/ GetWfsFeatures

\* the client's methods, called one after the other in any order
ClientSpec == Init /\ [][ClientNext]_vars

-----------------------------------------------------------------------------
(* Properties *)

\* the wizard emitted a binding
Emitted == result.type = "create_entry"
\* language, group, package and resource each handed over, in that order
CompletedInOrder ==
    /\ Len(trail) >= 5
    /\ SubSeq(trail, 1, 5) = <<"user", "language", "group", "package", "resource">>
\* the features a WFS fetch returned, in whichever document shape
FetchedFeatures(fetch) ==
    IF fetch.value.kind = "list" THEN fetch.value.list
    ELSE Get(fetch.value.dict, "features", <<>>)
\* the resources a package_show answer lists with a URL and one of the formats
Listed(resp, formats) ==
    LET details == get_package_details(resp) IN
    IF details.exc # "" \/ details.none THEN {}
    ELSE {r \in Range(Get(details.value, "resources", <<>>)) :
              r.format \in formats /\ r.url # ""}
SelectResource(v) == Input(("resource_id" :> v))

\* C1: after a scheduled refresh whose fetch failed (transport error, timeout,
\* unparsable payload) the binding's snapshot equals the snapshot it had just
\* before that refresh, for a binding of any format
C1_FailedRefreshKeepsSnapshot ==
    (last_update.scheduled /\ last_update.failed) => coordinator.data = last_update.before

\* C2: every refresh of a binding of any format ends by returning a snapshot to
\* the coordinator: no exception of the fetch or of the normalization leaves
\* the update method
C2_UpdateNeverRaises ==
    coordinator.refreshes > 0 => last_update.ended = "returned"
\* a scheduled refresh whose fetch failed and whose update method returned
C2_Witness ==
    last_update.scheduled /\ last_update.failed /\ last_update.ended = "returned"

C4_WfsSkipsRowsAndFields ==
    Showing("resource") =>
        \A v \in Choices, resp \in PackageShowResponses :
        \A r \in Listed(resp, {"WFS"}) :
        \A data_resp \in WfsResponses :
        \A second \in SecondFor(data_resp) :
            LET after == async_step_resource(Self, SelectResource(v), resp, data_resp, second)
                fetch == get_resource_data(data_resp, second)
            IN (v.prefix = "" /\ v.id = r.id /\ r.name # "") =>
                   /\ "rows" \notin Range(after.chain)
                   /\ "fields" \notin Range(after.chain)
                   /\ after.res.type = "form"
                   /\ IF fetch.exc = "" /\ FetchedFeatures(fetch) # <<>>
                          THEN after.chain = <<"resource", "confirm">>
                               /\ after.res.step_id = "confirm"
                      ELSE after.chain = <<"resource">>
                           /\ after.res.step_id = "resource"
                           /\ after.res.errors # ""

\* C5: selecting a resource that has a URL and whose declared format is JSON,
\* XLSX, XLS, CSV or XML records its format and its URL and hands over from
\* resource to the rows step
C5_TabularResourceGoesToRows ==
    Showing("resource") =>
        \A v \in Choices, resp \in PackageShowResponses :
        \A r \in Listed(resp, {"JSON", "XLSX", "XLS", "CSV", "XML"}) :
        \A data_resp \in DataResponses(r.format) :
        \A second \in SecondFor(data_resp) :
            LET after == async_step_resource(Self, SelectResource(v), resp, data_resp, second)
            IN v.id = r.id =>
                   /\ Get(after.self.config, "resource_format", None) = r.format
                   /\ "resource_url" \in DOMAIN after.self.config
                   /\ after.self.config["resource_url"]
                          = ResourceUrl(r.url, Get(_config, "language", "en"))
                   /\ Len(after.chain) >= 2
                   /\ after.chain[2] = "rows"

C7_TooManySelectorsRejected ==
    /\ (/\ call.step = "fields"
        /\ "fields" \in DOMAIN call.data
        /\ Len(call.data["fields"]) > MAX_SENSORS)
           => /\ Showing("fields")
              /\ cur_step.errors = "too_many_sensors"
              /\ "selected_fields" \notin DOMAIN _config
    /\ (Showing("confirm") /\ "selected_fields" \in DOMAIN _config)
           => Len(_config["selected_fields"]) <= MAX_SENSORS

\* C8: no binding is emitted for a WFS resource whose fetched features are
\* more than 100
C8_NoWfsBindingAboveCeiling ==
    (Emitted /\ Get(result.data, "resource_format", "") = "WFS")
        => Len(result.data["rows_data"]) <= MAX_SENSORS

\* C9: every call of a step handler ends with a result, a form or the emitted
\* binding: no exception leaves the handler and no handler returns nothing
C9_EveryHandlerEndsWithResult ==
    call.step # "" => result.type \in {"form", "create_entry"}

RowFormats == {"JSON", "XLSX", "XLS", "CSV", "XML"}
\* the flow object with the given declared format recorded
WithFormat(self, format) ==
    [self EXCEPT !.config = Put(self.config, "resource_format", format)]
\* what the user may submit to the rows step: nothing, an empty form, a row
RowsInput(given, picks, idx) ==
    IF ~given THEN NoInput
    ELSE IF picks THEN Input(("row" :> RowOption(idx)))
    ELSE Input(EmptyDict)

\* C11: at the rows step, for each of the formats JSON, XLSX, XLS, CSV and XML,
\* when the fetch and the normalization give no selectable row the step shows
\* the rows form again with an error, whatever the user submits; the step
\* hands over to fields only when rows are selectable and the user submitted
\* a row, and then exactly that row's index is stored
C11_NoRowsStaysOnRows ==
    Showing("rows") =>
        \A format \in IF _rows_data = <<>> THEN RowFormats
                      ELSE {_config["resource_format"]} :
        \A data_resp \in DataResponses(format) :
        \A second \in SecondFor(data_resp) :
        \A given \in BOOLEAN, picks \in BOOLEAN, idx \in 0..2 :
            LET self == WithFormat(Self, format)
                after == async_step_rows(self, RowsInput(given, picks, idx), data_resp, second)
                loaded == LoadRows(self, data_resp, second)
                none == loaded.status # "ok" \/ RowChoices(loaded.self) = <<>>
            IN /\ none => /\ after.chain = <<"rows">>
                          /\ after.res.type = "form"
                          /\ after.res.step_id = "rows"
                          /\ after.res.errors # ""
               /\ "fields" \in Range(after.chain)
                      => /\ ~none
                         /\ given
                         /\ picks
                         /\ "selected_rows" \in DOMAIN after.self.config
                         /\ after.self.config["selected_rows"] = <<idx>>
\* the user submitted the rows form while no row was selectable: the rows form
\* is shown again with no_valid_rows
C11_Witness ==
    /\ call.step = "rows"
    /\ call.given
    /\ Showing("rows")
    /\ cur_step.errors = "no_valid_rows"
    /\ "selected_rows" \notin DOMAIN _config

\* C12: once the rows step has handed over to fields, the stored selected-row
\* list holds exactly one index, that index is the one of an option the rows
\* step offers for the wizard's rows, and it is within the rows' bounds; the
\* call that handed over stored the index of the row the user submitted
C12_SelectedRowWasOffered ==
    /\ "rows" \in Range(trail) =>
           /\ "selected_rows" \in DOMAIN _config
           /\ Len(_config["selected_rows"]) = 1
           /\ RowOption(_config["selected_rows"][1]) \in Range(RowChoices(Self))
           /\ InRange(_rows_data, _config["selected_rows"][1])
    /\ (call.step = "rows" /\ "fields" \in Range(call.chain)) =>
           call.data["row"] = RowOption(_config["selected_rows"][1])
\* the rows step handed over to fields with the second row selected
C12_Witness ==
    /\ call.step = "rows"
    /\ "fields" \in Range(call.chain)
    /\ _config["selected_rows"] = <<1>>
    /\ Len(_rows_data) >= 2

\* the kinds of a field selector
SelectorKinds == {"field", "measurement"}
\* a stored field selection: at least one selector, each a (kind, key) pair
StoredSelection(config) ==
    /\ "selected_fields" \in DOMAIN config
    /\ config["selected_fields"] # <<>>
    /\ \A i \in DOMAIN config["selected_fields"] :
           /\ Len(config["selected_fields"][i]) = 2
           /\ config["selected_fields"][i][1] \in SelectorKinds

\* C13: a submission of the fields form with an empty selection shows the
\* fields form again with an error and stores nothing; the fields step hands
\* over to confirm only with a stored selection of at least one selector, and
\* every stored selector is a (kind, key) pair with kind field or measurement
C13_ConfirmNeedsASelector ==
    /\ Showing("fields") =>
           \A sel \in Selections(cur_step.options) :
               LET after == async_step_fields(Self, Input(("fields" :> sel)))
               IN /\ sel = <<>> => /\ after.chain = <<"fields">>
                                   /\ after.res.type = "form"
                                   /\ after.res.step_id = "fields"
                                   /\ after.res.errors # ""
                                   /\ after.self.config = _config
                  /\ "confirm" \in Range(after.chain) =>
                         /\ sel # <<>>
                         /\ StoredSelection(after.self.config)
                         /\ after.self.config["selected_fields"] = sel
    /\ "fields" \in Range(trail) => StoredSelection(_config)
    /\ "selected_fields" \in DOMAIN _config => StoredSelection(_config)
\* the user submitted the fields form with nothing selected: the fields form
\* is shown again with no_fields_selected and no selection is stored
C13_Witness ==
    /\ call.step = "fields"
    /\ call.given
    /\ "fields" \in DOMAIN call.data
    /\ call.data["fields"] = <<>>
    /\ Showing("fields")
    /\ cur_step.errors = "no_fields_selected"
    /\ "selected_fields" \notin DOMAIN _config

\* the entities that read a row of the snapshot
RowEntities == {i \in DOMAIN entities : entities[i].cls # "WFSPointEntity"}
\* the geographic entities
PointEntities == {i \in DOMAIN entities : entities[i].cls = "WFSPointEntity"}
\* the snapshot as rows: a single element parsed as a dict is one row
SnapshotRows(data) == IF data.kind = "list" THEN data.list ELSE <<data.dict>>

\* C14: every row-based entity, of whichever format, is available exactly when
\* the binding's current snapshot is not empty and the entity's row index is
\* smaller than the snapshot's length
C14_AvailableIffRowInSnapshot ==
    \A i \in RowEntities :
        available(entities[i])
            <=> (/\ ~Falsy(coordinator.data)
                 /\ entities[i].row_idx < PyLen(coordinator.data))

SelectedPairs(config) ==
    {<<config["selected_rows"][r], config["selected_fields"][f]>> :
        r \in DOMAIN config["selected_rows"], f \in DOMAIN config["selected_fields"]}

ImpliedEntities(kind, entry) ==
    IF kind = "wfs" THEN tracker_setup_entities(entry, JList(entry.rows_data))
    ELSE IF kind = "xlsx" THEN setup_xlsx_sensors(entry, JList(entry.rows_data))
    ELSE IF kind = "xml" THEN setup_xml_sensors(entry)
    ELSE setup_standard_sensors(entry)
\* what an entity shows: the place and the state of a point, the value of a row
Shown(e, data) ==
    IF e.cls = "WFSPointEntity"
        THEN <<"present", <<Coordinate(e.feature, 1), Coordinate(e.feature, 0)>>>>
    ELSE <<native_value(e, data), <<>>>>

\* C18: right after the activation of a persisted binding of any format, and
\* whatever the upstream answered to the activation's fetch, the binding's
\* entities have the unique keys and the values of the entities that the
\* snapshot stored at confirmation implies
C18_ActivationMatchesConfirmation ==
    (coordinator.kind \in {"standard", "xml", "xlsx", "wfs"} /\ ~last_update.scheduled)
        => LET implied == ImpliedEntities(coordinator.kind, entry_data)
               snapshot == JList(entry_data.rows_data)
           IN /\ Len(entities) = Len(implied)
              /\ \A i \in DOMAIN entities :
                     /\ entities[i].unique_id = implied[i].unique_id
                     /\ Shown(entities[i], coordinator.data) = Shown(implied[i], snapshot)

\* a feature with a point geometry of two coordinates
HasPoint(feature) ==
    /\ "geometry" \in DOMAIN feature
    /\ feature.geometry # Null
    /\ Len(feature.geometry.coordinates) >= 2
\* C19: each geographic entity is made with the state present and with
\* latitude coordinates[1] and longitude coordinates[0] of its feature of the
\* activation's fetch, and no later step, a refresh that succeeds or fails,
\* changes its state, its latitude, its longitude or its attributes
C19_PointsAreConstant ==
    [][/\ (coordinator.kind = "" /\ coordinator'.kind = "wfs") =>
              /\ DOMAIN entities' = DOMAIN coordinator'.data.list
              /\ \A i \in DOMAIN entities' :
                     /\ state(entities[i])' = "present"
                     /\ HasPoint(coordinator'.data.list[i]) =>
                            /\ latitude(entities[i])'
                                   = Return(At(coordinator'.data.list[i].geometry.coordinates, 1))
                            /\ longitude(entities[i])'
                                   = Return(At(coordinator'.data.list[i].geometry.coordinates, 0))
       /\ \A i \in PointEntities :
              /\ i \in DOMAIN entities'
              /\ state(entities[i])' = state(entities[i])
              /\ latitude(entities[i])' = latitude(entities[i])
              /\ longitude(entities[i])' = longitude(entities[i])
              /\ extra_state_attributes(entities[i])' = extra_state_attributes(entities[i])
      ]_vars
\* a scheduled refresh failed and emptied the snapshot of a binding that has
\* geographic entities
C19_Witness ==
    /\ coordinator.kind = "wfs"
    /\ PointEntities # {}
    /\ last_update.scheduled
    /\ last_update.failed
    /\ Falsy(coordinator.data)

\* C20: the name sanitizer is idempotent: applied to its own result it
\* returns that result, for every label, those longer than 64 characters and
\* those with parentheses or separators around the cut included
C20_SanitizeIsIdempotent ==
    label.passes >= 2 => label.output = label.previous

\* [a-z0-9_]
TokenChar(c) == IsAlnum(c) \/ c = "_"
\* nothing of the argument is left for a name: the value is falsy, or no letter
\* or digit stands outside its parentheses
NothingLeft(name) ==
    \/ ~name.truthy
    \/ LET kept == StripParens([i \in DOMAIN name.text |-> ToLower(name.text[i])])
       IN \A i \in DOMAIN kept : ~IsAlnum(kept[i])

\* C21: for every argument, the empty string and the values that are not
\* strings included, the name sanitizer returns a token that is not empty, has
\* at most 64 characters, all of them lower-case letters, digits or
\* underscores, and that is 'unnamed' when nothing else is left
C21_SanitizeIsTotalAndBounded ==
    label.passes = 1 =>
        /\ label.output # <<>>
        /\ Len(label.output) <= MAX_NAME_LENGTH
        /\ \A i \in DOMAIN label.output : TokenChar(label.output[i])
        /\ NothingLeft(label.input) => label.output = Unnamed
\* the sanitizer was applied to a value that is not a string and to a label
\* longer than 64 characters: it returned 'unnamed' for None and the integer
\* 0, and cut the label to 64 characters
C21_Witness ==
    /\ label.passes = 1
    /\ \/ label.input.type # "str" /\ ~label.input.truthy /\ label.output = Unnamed
       \/ /\ label.input.type = "str"
          /\ Len(label.input.text) > MAX_NAME_LENGTH
          /\ Len(label.output) = MAX_NAME_LENGTH

\* the transport failed, the HTTP status is an error, or the call timed out
TransportFailed(resp) == resp.net \in {"client_error", "http_error", "timeout"}
\* the body was read as a JSON envelope
EnvelopeRead(resp) == resp.net = "ok" /\ resp.parses /\ JsonContentType(resp.ctype)
\* the envelope read reports a failure: its success flag is false
FailureEnvelope(resp) ==
    EnvelopeRead(resp) /\ "success" \in DOMAIN resp.body /\ ~resp.body["success"]
\* the call returned the envelope's result payload, nothing when it carries none
ReturnedResult(r) ==
    /\ r.outcome.exc = ""
    /\ IF "result" \in DOMAIN r.resp.body
           THEN r.outcome = Return(r.resp.body["result"])
       ELSE r.outcome = ReturnNone

\* C22 as stated: a catalog API call fails with the connectivity error when
\* the envelope has success=false, the transport fails, the HTTP status is an
\* error or the call times out, and in every other case returns the
\* envelope's result payload
C22_FailsOnFourCausesOnly ==
    request.method = "_api_call" =>
        IF \/ TransportFailed(request.resp)
           \/ FailureEnvelope(request.resp)
            THEN request.outcome = Raise("CannotConnect")
        ELSE ReturnedResult(request)
\* C22 amended: a catalog API call fails with the connectivity error when the
\* envelope has success=false, the transport fails, the HTTP status is an
\* error, the call times out, or the body cannot be read as a JSON envelope;
\* in every other case it returns the envelope's result payload, and nothing
\* when the envelope carries no result
C22_FailsOnUnreadableBodyToo ==
    request.method = "_api_call" =>
        IF \/ TransportFailed(request.resp)
           \/ ~EnvelopeRead(request.resp)
           \/ FailureEnvelope(request.resp)
            THEN request.outcome = Raise("CannotConnect")
        ELSE ReturnedResult(request)
\* a call whose exchange worked and whose body is no JSON envelope failed with
\* the connectivity error
C22_Witness ==
    /\ request.method = "_api_call"
    /\ request.resp.net = "ok"
    /\ ~EnvelopeRead(request.resp)
    /\ request.outcome = Raise("CannotConnect")

\* the spreadsheet mime types: legacy Excel and Office Open XML spreadsheet
SpreadsheetMime(ct) == ct \in {CT_XLS, CT_XLSX}
\* the XML content types
XmlMime(ct) == ct \in {CT_XML}
\* an exchange that worked and whose body is a JSON document
JsonRead(resp) == resp.net = "ok" /\ resp.parses /\ JsonContentType(resp.ctype)

\* C23: a fetch of a resource URL that is answered dispatches on the content
\* type: a spreadsheet mime type, legacy Excel or Office Open XML spreadsheet,
\* gives the empty placeholder and issues no second request; an XML content
\* type gives the features list of the re-issued JSON feature request; any
\* other content type gives the parsed JSON body
C23_DispatchOnContentType ==
    (request.method = "get_resource_data" /\ request.resp.net = "ok") =>
        IF SpreadsheetMime(request.resp.ctype) THEN
            /\ request.outcome = Return(JDict(("rows" :> <<>>)))
            /\ request.requests = 1
        ELSE IF XmlMime(request.resp.ctype) THEN
            /\ request.requests = 2
            /\ (JsonRead(request.second) /\ request.second.body.kind = "dict") =>
                   request.outcome
                       = Return(JList(Get(request.second.body.dict, "features", <<>>)))
        ELSE JsonRead(request.resp) => request.outcome = Return(request.resp.body)

\* C24: within one wizard run each kind of discovery data, the group list,
\* the packages of the group, the resources of the package and the rows of the
\* resource, is requested from upstream at most once, however often the step
\* handlers run for display, submission and redisplay
C24_DiscoveryFetchedOnce ==
    \A kind \in DiscoveryKinds : fetched[kind] # "again"

\* C25: the candidate list of the fields step never holds both the
\* measurement selector and the plain-field selector of one code, however
\* many measurement entries the row has
C25_MeasurementNotAlsoField ==
    Showing("fields") =>
        \A i \in DOMAIN cur_step.options, j \in DOMAIN cur_step.options :
            ~(/\ cur_step.options[i][1] = "measurement"
              /\ cur_step.options[j][1] = "field"
              /\ cur_step.options[j][2] = cur_step.options[i][2])

\* the row the fields step works on
SelectedRow == At(_rows_data, _config["selected_rows"][1])
\* the no-data marker of a JSON row: the value is missing
NoData(row, code) == Get(row, code, "N/A") = "N/A"

\* C26: in the fields step of a JSON row, a measurement entry is left out of
\* the candidate list exactly when its current value is the no-data marker:
\* every entry with a real value is offered, whatever its description text
C26_ExcludedIffNoData ==
    (/\ Showing("fields")
     /\ cur_step.errors # "unknown"
     /\ Get(_config, "resource_format", "") = "JSON") =>
        \A m \in Range(CodedMeasurements(SelectedRow)) :
            FieldOption("measurement", Lower(m["code"])) \in Range(cur_step.options)
                <=> ~NoData(SelectedRow, Lower(m["code"]))

\* the first, identifying column of a loaded table has a value in the row
Identified(row, columns) == columns # <<>> /\ Get(row, columns[1], "") \notin {NaN, ""}

\* C27: for a spreadsheet or CSV resource no option of the rows step stands
\* for a row whose first column is empty or NaN, whatever its other columns
\* hold; a fully empty row is one such row
C27_UnidentifiedRowNotOffered ==
    (Showing("rows") /\ Get(_config, "resource_format", "") \in {"XLSX", "XLS", "CSV"}) =>
        \A i \in DOMAIN cur_step.options :
            Identified(At(_rows_data, cur_step.options[i][2]), _config["xlsx_columns"])

\* the entities made from a selector of the given kind
SelectorEntities(kind) ==
    {i \in DOMAIN entities :
        entities[i].cls = "OpenDataSensor" /\ entities[i].unique_id[3] = kind}
\* the keys of a row that are the code up to letter case
KeysFor(row, code) == {k \in DOMAIN row : k # "measurements" /\ Lower(k) = Lower(code)}

\* C28: the value of an entity made from a measurement selector whose code
\* is, up to letter case, the code of an entry of the row's measurements list
\* is the row's value for that code, whatever the letter case of the code in
\* the list and of the key in the row; the value of an entity made from a
\* plain-field selector is the one under exactly its key
C28_MeasurementLookupIgnoresCase ==
    /\ \A i \in SelectorEntities("measurement") :
           LET e == entities[i]
               rows == SnapshotRows(coordinator.data)
               row == At(rows, e.row_idx)
           IN (e.row_idx < Len(rows) /\ FindMeasurement(row, e.field) # {}) =>
                  \A k \in KeysFor(row, e.field) :
                      native_value(e, coordinator.data) = row[k]
    /\ \A i \in SelectorEntities("field") :
           LET e == entities[i]
               rows == SnapshotRows(coordinator.data)
           IN e.row_idx < Len(rows) =>
                  native_value(e, coordinator.data) = Get(At(rows, e.row_idx), e.field, None)

\* C29: for a JSON or XML binding the entity identifier the confirm preview
\* shows is the identifier given to the entity created at activation, for
\* every row name and field description, those with parentheses, repeated
\* separators or more than 64 characters included
C29_PreviewIdIsEntityId ==
    label.ids.named => label.ids.preview = label.ids.entity

C31_CsvRefreshFollowsUpstream ==
    (/\ Get(entry_data.config, "resource_format", "") = "CSV"
     /\ last_update.scheduled
     /\ last_update.table.delivered)
        => coordinator.data
             = JList(dropna_all(read_table(last_update.table.payload, DEFAULT_NA).value.records))

\* a column entry that holds a character other than a letter A-Z
MalformedColumn(column) == \E i \in DOMAIN column : column[i] \notin 0..25
\* a cell below the data rows or right of the columns of the sheet
OutsideSheet(column, row, sheet) ==
    row > Len(sheet.data) \/ ColumnNumber(column) > Len(sheet.header)
\* C32: on the coordinate step every entry whose column holds a character
\* other than a letter, and every entry that names a cell outside the sheet,
\* shows the coordinate form again with an error and stores no coordinates
C32_MalformedCoordinatesRejected ==
    Showing("excel_coordinates") =>
        \A column \in ColumnEntries, row \in 1..MaxCellRow, resp \in BinaryResponses :
            (\/ MalformedColumn(column)
             \/ /\ resp.net = "ok"
                /\ ~resp.body.corrupt
                /\ OutsideSheet(column, row, resp.body))
            => LET user_input == Input(("excel_column" :> column) @@ ("excel_row" :> row))
                   after == async_step_excel_coordinates(Self, user_input, resp)
               IN /\ after.res.type = "form"
                  /\ after.res.step_id = "excel_coordinates"
                  /\ after.res.errors # ""
                  /\ after.self.config = _config

\* C33: whichever supported language is configured, a group submitted at the
\* group step while the group fetch succeeds is stored as the group id and the
\* package step runs
C33_GroupStepAdvancesInEveryLanguage ==
    (Showing("group") /\ Get(_config, "language", "en") \in Range(SUPPORTED_LANGUAGES)) =>
        \A v \in Choices, resp \in GroupListResponses, pkg_resp \in GroupShowResponses :
            LET groups == get_groups(resp)
                user_input == Input(("group_id" :> v))
                after == async_step_group(Self, user_input, resp, pkg_resp)
            IN (groups.exc = "" /\ ~groups.none)
                   => /\ "package" \in Range(after.chain)
                      /\ Get(after.self.config, "group_id", None) = v

\* C34: when the fields step works on a JSON row that has no measurements
\* list, or an empty one, its form is not the generic error form and offers
\* every field of the row as a plain-field selector
C34_RowWithoutMeasurementsOffersFields ==
    (/\ Showing("fields")
     /\ Get(_config, "resource_format", "") = "JSON"
     /\ "selected_rows" \in DOMAIN _config
     /\ Get(SelectedRow, "measurements", <<>>) = <<>>) =>
        /\ cur_step.errors # "unknown"
        /\ \A k \in DOMAIN SelectedRow \ {"measurements"} :
               FieldOption("field", k) \in Range(cur_step.options)

\* C35: every spreadsheet binding (XLSX or XLS) the wizard emits, through
\* whichever steps, holds the selected-row list and the selected-field list
\* that the activation of a spreadsheet binding reads
C35_SheetBindingHoldsSelection ==
    (Emitted /\ Get(result.data, "resource_format", "") \in XLSX_SUPPORTED_FORMATS)
        => /\ "selected_rows" \in DOMAIN result.data
           /\ result.data["selected_rows"] # <<>>
           /\ "selected_fields" \in DOMAIN result.data

\* the rows the rows step offers by index for a table: df.dropna(how='all')
OfferedRows(bytes) == dropna_all(read_table(bytes, DEFAULT_NA).value.records)
\* C36: after a refresh of an XLS binding that was answered with a readable
\* sheet, the row each entity reads at its index is the row the rows step
\* offers at that index for that sheet, also when a fully empty row stands
\* above it
C36_XlsEntityReadsSelectedRow ==
    (/\ Get(entry_data.config, "resource_format", "") = "XLS"
     /\ last_update.table.delivered
     /\ ~last_update.table.payload.corrupt) =>
        \A i \in DOMAIN entities :
            LET idx == entities[i].row_idx
                offered == OfferedRows(last_update.table.payload)
            IN idx < Len(offered)
                   => /\ idx < PyLen(coordinator.data)
                      /\ At(coordinator.data.list, idx) = At(offered, idx)

\* C37: within one binding no two entities have the same unique key, whether
\* they stand for two selectors of a row, two columns of a sheet or two
\* features of a layer
C37_UniqueKeysAreDistinct ==
    \A i, j \in DOMAIN entities :
        i # j => entities[i].unique_id # entities[j].unique_id

\* C40: for every feature a geographic entity is made from, one without a
\* geometry key, with a null geometry or with fewer than two coordinates
\* included, reading the latitude or the longitude returns the coordinate or
\* None and raises nothing
C40_CoordinateReadNeverRaises ==
    \A i \in PointEntities :
        /\ latitude(entities[i]).exc = ""
        /\ longitude(entities[i]).exc = ""

\* C38: once the binding has been unloaded, hass.data[DOMAIN] holds no key
\* that the confirm step or the activation wrote for it
C38_RegistryHoldsActiveBindingsOnly ==
    (host.unloaded = "ok" /\ entry_data = EmptyDict) => host.data = {}

\* C39: a binding is never set up again while it is still set up: a reload
\* whose unload failed runs no second setup
C39_NoSetupWithoutUnload ==
    host.setups <= 1

====
